---- MODULE Spec2Model ----
(***************************************************************************)
(* Model of network/framework2/src/peer.rs: the per-connection writer      *)
(* task (WriterContext), reader task (ReaderContext), start_peer and       *)
(* peer_cleanup_task.                                                      *)
(*                                                                         *)
(* Option<T> is a sequence of length 0 (None) or 1 (Some(x)).              *)
(* Vec<u8> is a sequence of bytes.                                         *)
(***************************************************************************)
EXTENDS Integers, Sequences, FiniteSets, TLC

\* ---------------------------------------------------------------- bounds
\* config.max_frame_size (peer.rs:45), scaled down
MaxFrameSize == 2
\* config.network_channel_size (peer.rs:42-43), scaled down
ChanCap == 2
\* number of messages the applications enqueue in one behaviour of SpecW
MaxEnq == 3
\* number of messages the applications enqueue in one behaviour of Spec
MaxEnqPeer == 2
\* number of framing units the remote peer sends in one behaviour of Spec
MaxInj == 1
\* number of framing units the remote peer sends in one behaviour of SpecR
MaxInjR == 4
\* number of stream units the remote peer sends in one behaviour of SpecD
MaxInjD == 5
\* units of a malformed inbound stream (SpecM)
MaxInjM == 4
\* units of an inbound stream that runs past fragment 255 (SpecO)
MaxInjO == 258
\* framing units the socket buffers between the writer and the peer's reader
SockCap == 1

\* ------------------------------------------------------ program constants
\* 0x0ff in start_large: the largest fragment count a u8 can declare
MaxFragments == 255

\* the range of a u8 (large_fragment_id, fragment_index, num_fragments)
U8 == 256

\* ---------------------------------------------------------------- options
None == << >>
Some(x) == << x >>
IsSome(o) == Len(o) = 1
IsNone(o) == Len(o) = 0
Unwrap(o) == o[1]

\* --------------------------------------------------------------- messages
\* NetworkMessage: Error(code) | RpcRequest | RpcResponse | DirectSendMsg.
\* tag is a history field (the submission number); it is not on the wire.
Bytes(tag, len) == [i \in 1..len |-> (tag * 16 + i) % U8]

MkMsg(kind, err, proto, rid, tag, len) ==
    [kind |-> kind, err |-> err, protocol_id |-> proto, request_id |-> rid,
     tag |-> tag, data |-> Bytes(tag, len)]

NoMsg == [kind |-> "None", err |-> "", protocol_id |-> 0, request_id |-> 0,
          tag |-> 0, data |-> << >>]

\* NetworkMessage::data_len(): the length of the payload field
DataLen(msg) == Len(msg.data)

IsDisconnect(msg) == msg.kind = "Error" /\ msg.err = "DisconnectCommand"

\* ---------------------------------------------------------- framing units
\* MultiplexMessage: Message(msg) | Stream(Header) | Stream(Fragment)
UMessage(msg) ==
    [type |-> "Message", request_id |-> 0, num_fragments |-> 0,
     fragment_id |-> 0, message |-> msg, raw_data |-> << >>]

UHeader(rid, n, msg) ==
    [type |-> "Header", request_id |-> rid, num_fragments |-> n,
     fragment_id |-> 0, message |-> msg, raw_data |-> << >>]

UFragment(rid, fid, blob) ==
    [type |-> "Fragment", request_id |-> rid, num_fragments |-> 0,
     fragment_id |-> fid, message |-> NoMsg, raw_data |-> blob]

\* Vec::split_off(at): the vector keeps [0, at), the result is [at, len)
SplitKeep(v, at) == SubSeq(v, 1, at)
SplitRest(v, at) == SubSeq(v, at + 1, Len(v))

\* ------------------------------------------------------------ WriterContext
WriterNew ==
    [stream_request_id |-> 0, large_message |-> None, large_fragment_id |-> 0,
     send_large |-> FALSE, next_large_msg |-> None]

\* The result of a writer helper: the new context, the framing unit to send
\* (an option) and whether the helper panicked.
WOut(w, mm) == [w |-> w, mm |-> Some(mm), panic |-> FALSE]
WPanic(w) == [w |-> w, mm |-> None, panic |-> TRUE]

\* faulty variant: next_large splitting a blob of exactly max_frame_size bytes
\* (>= for >), which leaves an empty rest
NextLarge_Ge(w) ==
    IF IsNone(w.large_message) THEN WPanic(w)
    ELSE LET blob0 == Unwrap(w.large_message)
             big == Len(blob0) >= MaxFrameSize
             blob == IF big THEN SplitKeep(blob0, MaxFrameSize) ELSE blob0
             lm == IF big THEN Some(SplitRest(blob0, MaxFrameSize)) ELSE None
             fid == (w.large_fragment_id + 1) % U8
         IN WOut([w EXCEPT !.large_message = lm, !.large_fragment_id = fid,
                           !.send_large = FALSE],
                 UFragment(w.stream_request_id, fid, blob))

\* faulty variant: next_large without large_fragment_id += 1
NextLarge_NoIncrement(w) ==
    IF IsNone(w.large_message) THEN WPanic(w)
    ELSE LET blob0 == Unwrap(w.large_message)
             big == Len(blob0) > MaxFrameSize
             blob == IF big THEN SplitKeep(blob0, MaxFrameSize) ELSE blob0
             lm == IF big THEN Some(SplitRest(blob0, MaxFrameSize)) ELSE None
         IN WOut([w EXCEPT !.large_message = lm, !.send_large = FALSE],
                 UFragment(w.stream_request_id, w.large_fragment_id, blob))

\* fn next_large: large_message.take().unwrap() panics on None
NextLarge(w) ==
    IF IsNone(w.large_message) THEN WPanic(w)
    ELSE LET blob0 == Unwrap(w.large_message)
             big == Len(blob0) > MaxFrameSize
             blob == IF big THEN SplitKeep(blob0, MaxFrameSize) ELSE blob0
             lm == IF big THEN Some(SplitRest(blob0, MaxFrameSize)) ELSE None
             fid == (w.large_fragment_id + 1) % U8
         IN WOut([w EXCEPT !.large_message = lm, !.large_fragment_id = fid,
                           !.send_large = FALSE],
                 UFragment(w.stream_request_id, fid, blob))

\* faulty variant: the division without the rounding loop
NumFragments_Floor(len) == len \div MaxFrameSize

\* the loop of start_large that rounds data_len / max_frame_size up
NumFragments(len) ==
    IF (len \div MaxFrameSize) * MaxFrameSize < len
    THEN (len \div MaxFrameSize) + 1
    ELSE len \div MaxFrameSize

\* faulty variant: start_large advancing stream_request_id by two
StartLarge_IdByTwo(w, msg) ==
    LET rid == w.stream_request_id + 2
        w1 == [w EXCEPT !.stream_request_id = rid, !.send_large = FALSE,
                        !.large_fragment_id = 0]
        n == NumFragments(DataLen(msg))
    IN IF n > MaxFragments \/ msg.kind = "Error" THEN WPanic(w1)
       ELSE WOut([w1 EXCEPT !.large_message =
                                Some(SplitRest(msg.data, MaxFrameSize))],
                 UHeader(rid, n,
                         [msg EXCEPT !.data = SplitKeep(msg.data, MaxFrameSize)]))

\* faulty variant: start_large without stream_request_id += 1
StartLarge_SameId(w, msg) ==
    LET rid == w.stream_request_id
        w1 == [w EXCEPT !.send_large = FALSE, !.large_fragment_id = 0]
        n == NumFragments(DataLen(msg))
    IN IF n > MaxFragments \/ msg.kind = "Error" THEN WPanic(w1)
       ELSE WOut([w1 EXCEPT !.large_message =
                                Some(SplitRest(msg.data, MaxFrameSize))],
                 UHeader(rid, n,
                         [msg EXCEPT !.data = SplitKeep(msg.data, MaxFrameSize)]))

\* faulty variant: start_large refusing 255 fragments too (>= for >)
StartLarge_Ge(w, msg) ==
    LET rid == w.stream_request_id + 1
        w1 == [w EXCEPT !.stream_request_id = rid, !.send_large = FALSE,
                        !.large_fragment_id = 0]
        n == NumFragments(DataLen(msg))
    IN IF n >= MaxFragments \/ msg.kind = "Error" THEN WPanic(w1)
       ELSE WOut([w1 EXCEPT !.large_message =
                                Some(SplitRest(msg.data, MaxFrameSize))],
                 UHeader(rid, n,
                         [msg EXCEPT !.data = SplitKeep(msg.data, MaxFrameSize)]))

\* fn start_large: panics above 255 fragments and on an Error message.
\* stream_request_id is a u32; a behaviour here starts far fewer than 2^32
\* streams, so the increment never wraps.
StartLarge(w, msg) ==
    LET rid == w.stream_request_id + 1
        w1 == [w EXCEPT !.stream_request_id = rid, !.send_large = FALSE,
                        !.large_fragment_id = 0]
        n == NumFragments(DataLen(msg))
    IN IF n > MaxFragments \/ msg.kind = "Error" THEN WPanic(w1)
       ELSE WOut([w1 EXCEPT !.large_message =
                                Some(SplitRest(msg.data, MaxFrameSize))],
                 UHeader(rid, n,
                         [msg EXCEPT !.data = SplitKeep(msg.data, MaxFrameSize)]))

\* faulty variant: the small-message arm without send_large = true
TakeNonBlocking_NoToggle(w, msg) ==
    IF DataLen(msg) > MaxFrameSize
    THEN NextLarge([w EXCEPT !.next_large_msg = Some(msg)])
    ELSE WOut(w, UMessage(msg))

\* faulty variant: an oversized message starts its stream at once instead of being
\* staged behind the stream in progress
TakeNonBlocking_StartNow(w, msg) ==
    IF DataLen(msg) > MaxFrameSize
    THEN StartLarge(w, msg)
    ELSE WOut([w EXCEPT !.send_large = TRUE], UMessage(msg))

\* the Ok(msg) arm shared by try_high_prio_next_msg and try_next_msg
TakeNonBlocking(w, msg) ==
    IF DataLen(msg) > MaxFrameSize
    THEN NextLarge([w EXCEPT !.next_large_msg = Some(msg)])
    ELSE WOut([w EXCEPT !.send_large = TRUE], UMessage(msg))

\* faulty variant: a message of exactly max_frame_size bytes is streamed (>= for >)
TakeBlocking_Ge(w, msg) ==
    IF DataLen(msg) >= MaxFrameSize
    THEN StartLarge(w, msg)
    ELSE WOut(w, UMessage(msg))

\* the Some(msg) arms of the select! in run
TakeBlocking(w, msg) ==
    IF DataLen(msg) > MaxFrameSize
    THEN StartLarge(w, msg)
    ELSE WOut(w, UMessage(msg))

\* faulty variant: run continues the stream only on a staged message, not on send_large
ContinueLarge_StagedOnly(w) == IsSome(w.next_large_msg)

\* faulty variant: run continues the stream only on send_large, not on a staged message
ContinueLarge_NoStaged(w) == w.send_large

\* run: self.send_large || self.next_large_msg.is_some()
ContinueLarge(w) == w.send_large \/ IsSome(w.next_large_msg)


\* ------------------------------------------------------------ ReaderContext
\* capacity of an application's inbound channel
AppCap == 2
\* protocol ids with a registered application (ApplicationCollector)
Apps == {1, 2}
\* PeerNetworkId of the remote peer
RemotePeer == "remote"

\* a decode error item of the inbound stream (Some(Err(err)))
UErr ==
    [type |-> "Err", request_id |-> 0, num_fragments |-> 0,
     fragment_id |-> 0, message |-> NoMsg, raw_data |-> << >>]

ReaderNew ==
    [current_stream_id |-> 0, large_message |-> None, fragment_index |-> 0,
     num_fragments |-> 0]

\* what handle_message acts on besides the defragment fields: the inbound
\* channel of each application and whether its receiver was dropped, the
\* request ids of the pending outbound rpcs, the spawned complete_rpc tasks,
\* the counters
RoutingNew ==
    [app_inbox |-> [p \in Apps |-> << >>], app_closed |-> {},
     open_outbound_rpc |-> {}, rpc_spawned |-> << >>,
     rcount |-> [read_msgs |-> 0, read_bytes |-> 0, drop_msgs |-> 0,
                 drop_bytes |-> 0, rpc_miss |-> 0]]

\* faulty variant: forward counting a drop for an unregistered protocol
Forward_UnroutedCounted(rt, protocol_id, nmsg) ==
    IF protocol_id \notin Apps
    THEN [rt EXCEPT !.rcount.drop_msgs = @ + 1,
                    !.rcount.drop_bytes = @ + DataLen(nmsg)]
    ELSE IF /\ Len(rt.app_inbox[protocol_id]) < AppCap
            /\ protocol_id \notin rt.app_closed
    THEN [rt EXCEPT !.app_inbox[protocol_id] =
                        Append(@, [message |-> nmsg, sender |-> RemotePeer]),
                    !.rcount.read_msgs = @ + 1,
                    !.rcount.read_bytes = @ + DataLen(nmsg)]
    ELSE [rt EXCEPT !.rcount.drop_msgs = @ + 1,
                    !.rcount.drop_bytes = @ + DataLen(nmsg)]

\* faulty variant: forward dropping without app_inbound_drop
Forward_DropUncounted(rt, protocol_id, nmsg) ==
    IF protocol_id \notin Apps THEN rt
    ELSE IF /\ Len(rt.app_inbox[protocol_id]) < AppCap
            /\ protocol_id \notin rt.app_closed
    THEN [rt EXCEPT !.app_inbox[protocol_id] =
                        Append(@, [message |-> nmsg, sender |-> RemotePeer]),
                    !.rcount.read_msgs = @ + 1,
                    !.rcount.read_bytes = @ + DataLen(nmsg)]
    ELSE rt

\* fn forward: one try_send to the application registered for protocol_id
Forward(rt, protocol_id, nmsg) ==
    IF protocol_id \notin Apps THEN rt
    ELSE IF /\ Len(rt.app_inbox[protocol_id]) < AppCap
            /\ protocol_id \notin rt.app_closed
    THEN [rt EXCEPT !.app_inbox[protocol_id] =
                        Append(@, [message |-> nmsg, sender |-> RemotePeer]),
                    !.rcount.read_msgs = @ + 1,
                    !.rcount.read_bytes = @ + DataLen(nmsg)]
    ELSE [rt EXCEPT !.rcount.drop_msgs = @ + 1,
                    !.rcount.drop_bytes = @ + DataLen(nmsg)]

\* faulty variant: handle_message forwarding an Error message to an application
HandleMessage_ErrorForwarded(rt, nmsg) ==
    CASE nmsg.kind = "Error" -> Forward(rt, 1, nmsg)
      [] nmsg.kind = "RpcRequest" -> Forward(rt, nmsg.protocol_id, nmsg)
      [] nmsg.kind = "DirectSendMsg" -> Forward(rt, nmsg.protocol_id, nmsg)
      [] nmsg.kind = "RpcResponse" ->
            IF nmsg.request_id \in rt.open_outbound_rpc
            THEN [rt EXCEPT !.open_outbound_rpc = @ \ {nmsg.request_id},
                            !.rpc_spawned = Append(@, nmsg)]
            ELSE [rt EXCEPT !.rcount.rpc_miss = @ + 1]

\* faulty variant: handle_message completing an rpc on an unmatched response
HandleMessage_MissCompletes(rt, nmsg) ==
    CASE nmsg.kind = "Error" -> rt
      [] nmsg.kind = "RpcRequest" -> Forward(rt, nmsg.protocol_id, nmsg)
      [] nmsg.kind = "DirectSendMsg" -> Forward(rt, nmsg.protocol_id, nmsg)
      [] nmsg.kind = "RpcResponse" ->
            IF nmsg.request_id \in rt.open_outbound_rpc
            THEN [rt EXCEPT !.open_outbound_rpc = @ \ {nmsg.request_id},
                            !.rpc_spawned = Append(@, nmsg)]
            ELSE [rt EXCEPT !.rcount.rpc_miss = @ + 1,
                            !.rpc_spawned = Append(@, nmsg)]

\* faulty variant: handle_message looking the rpc up without removing it
HandleMessage_KeepsPending(rt, nmsg) ==
    CASE nmsg.kind = "Error" -> rt
      [] nmsg.kind = "RpcRequest" -> Forward(rt, nmsg.protocol_id, nmsg)
      [] nmsg.kind = "DirectSendMsg" -> Forward(rt, nmsg.protocol_id, nmsg)
      [] nmsg.kind = "RpcResponse" ->
            IF nmsg.request_id \in rt.open_outbound_rpc
            THEN [rt EXCEPT !.rpc_spawned = Append(@, nmsg)]
            ELSE [rt EXCEPT !.rcount.rpc_miss = @ + 1]

\* fn handle_message
HandleMessage(rt, nmsg) ==
    CASE nmsg.kind = "Error" -> rt
      [] nmsg.kind = "RpcRequest" -> Forward(rt, nmsg.protocol_id, nmsg)
      [] nmsg.kind = "DirectSendMsg" -> Forward(rt, nmsg.protocol_id, nmsg)
      [] nmsg.kind = "RpcResponse" ->
            IF nmsg.request_id \in rt.open_outbound_rpc
            THEN [rt EXCEPT !.open_outbound_rpc = @ \ {nmsg.request_id},
                            !.rpc_spawned = Append(@, nmsg)]
            ELSE [rt EXCEPT !.rcount.rpc_miss = @ + 1]

\* The result of handle_stream: the new context, the message it passes to
\* handle_message (an option), whether fragment_index += 1 overflowed u8, and
\* whether it hit unreachable!() (an Error message as assembly buffer).
ROut(r, out, ovf) == [r |-> r, out |-> out, overflow |-> ovf, panic |-> FALSE]
RPanic(r) == [r |-> r, out |-> None, overflow |-> FALSE, panic |-> TRUE]

\* faulty variant: a header arriving mid-stream keeps the old buffer
HandleStream_HeaderKeepsBuffer(r, u) ==
    IF u.type = "Header"
    THEN ROut([current_stream_id |-> u.request_id,
               num_fragments |-> u.num_fragments,
               large_message |-> IF r.num_fragments # r.fragment_index
                                    /\ IsSome(r.large_message)
                                 THEN r.large_message
                                 ELSE Some(u.message),
               fragment_index |-> 1], None, FALSE)
    ELSE IF u.request_id # r.current_stream_id
              \/ u.fragment_id # r.fragment_index
    THEN ROut([r EXCEPT !.num_fragments = 0, !.fragment_index = 0],
              None, FALSE)
    ELSE IF IsNone(r.large_message) THEN ROut(r, None, FALSE)
    ELSE IF Unwrap(r.large_message).kind = "Error" THEN RPanic(r)
    ELSE LET lm == [Unwrap(r.large_message) EXCEPT !.data = @ \o u.raw_data]
             ovf == r.fragment_index + 1 >= U8
             fi == (r.fragment_index + 1) % U8
         IN IF fi = r.num_fragments
            THEN ROut([r EXCEPT !.fragment_index = fi,
                                !.large_message = None], Some(lm), ovf)
            ELSE ROut([r EXCEPT !.fragment_index = fi,
                                !.large_message = Some(lm)], None, ovf)

\* faulty variant: handle_stream failing on an unexpected fragment
HandleStream_MismatchFatal(r, u) ==
    IF u.type = "Header"
    THEN ROut([current_stream_id |-> u.request_id,
               num_fragments |-> u.num_fragments,
               large_message |-> Some(u.message),
               fragment_index |-> 1], None, FALSE)
    ELSE IF u.request_id # r.current_stream_id
              \/ u.fragment_id # r.fragment_index
    THEN RPanic(r)
    ELSE IF IsNone(r.large_message) THEN ROut(r, None, FALSE)
    ELSE IF Unwrap(r.large_message).kind = "Error" THEN RPanic(r)
    ELSE LET lm == [Unwrap(r.large_message) EXCEPT !.data = @ \o u.raw_data]
             ovf == r.fragment_index + 1 >= U8
             fi == (r.fragment_index + 1) % U8
         IN IF fi = r.num_fragments
            THEN ROut([r EXCEPT !.fragment_index = fi,
                                !.large_message = None], Some(lm), ovf)
            ELSE ROut([r EXCEPT !.fragment_index = fi,
                                !.large_message = Some(lm)], None, ovf)

\* faulty variant: handle_stream without the check of the stream id
HandleStream_NoIdCheck(r, u) ==
    IF u.type = "Header"
    THEN ROut([current_stream_id |-> u.request_id,
               num_fragments |-> u.num_fragments,
               large_message |-> Some(u.message),
               fragment_index |-> 1], None, FALSE)
    ELSE IF u.fragment_id # r.fragment_index
    THEN ROut([r EXCEPT !.num_fragments = 0, !.fragment_index = 0],
              None, FALSE)
    ELSE IF IsNone(r.large_message) THEN ROut(r, None, FALSE)
    ELSE IF Unwrap(r.large_message).kind = "Error" THEN RPanic(r)
    ELSE LET lm == [Unwrap(r.large_message) EXCEPT !.data = @ \o u.raw_data]
             ovf == r.fragment_index + 1 >= U8
             fi == (r.fragment_index + 1) % U8
         IN IF fi = r.num_fragments
            THEN ROut([r EXCEPT !.fragment_index = fi,
                                !.large_message = None], Some(lm), ovf)
            ELSE ROut([r EXCEPT !.fragment_index = fi,
                                !.large_message = Some(lm)], None, ovf)

\* fn handle_stream
HandleStream(r, u) ==
    IF u.type = "Header"
    THEN ROut([current_stream_id |-> u.request_id,
               num_fragments |-> u.num_fragments,
               large_message |-> Some(u.message),
               fragment_index |-> 1], None, FALSE)
    ELSE IF u.request_id # r.current_stream_id
              \/ u.fragment_id # r.fragment_index
    THEN ROut([r EXCEPT !.num_fragments = 0, !.fragment_index = 0],
              None, FALSE)
    ELSE IF IsNone(r.large_message) THEN ROut(r, None, FALSE)
    ELSE IF Unwrap(r.large_message).kind = "Error" THEN RPanic(r)
    ELSE LET lm == [Unwrap(r.large_message) EXCEPT !.data = @ \o u.raw_data]
             ovf == r.fragment_index + 1 >= U8
             fi == (r.fragment_index + 1) % U8
         IN IF fi = r.num_fragments
            THEN ROut([r EXCEPT !.fragment_index = fi,
                                !.large_message = None], Some(lm), ovf)
            ELSE ROut([r EXCEPT !.fragment_index = fi,
                                !.large_message = Some(lm)], None, ovf)

\* ------------------------------------------------------------------ state
VARIABLES
    wctx,               \* WriterContext fields mutated by run
    w_pc,               \* "top" | "wait" | "send" | "done" | "panicked"
    w_mm,               \* the framing unit handed to writer.send (option)
    w_exit,             \* why run left its loop ("" while it has not)
    to_send,            \* normal-priority channel contents
    to_send_high_prio,  \* high-priority channel contents
    senders_dropped,    \* every Sender of both channels has been dropped
    wire,               \* framing units whose socket write succeeded
    frames_written,     \* aptos_network_frames_written
    bytes_written,      \* aptos_network_bytes_written
    rctx,               \* ReaderContext defragment fields
    r_pc,               \* "run" | "done" | "panicked"
    rin,                \* decoded items the reader has not consumed yet
    eof,                \* the inbound stream has ended after rin
    dispatched,         \* messages passed to handle_message, in order
    rt,                 \* what handle_message acts on: application
                        \* channels, pending rpcs, spawned completions,
                        \* counters
    closed,             \* the Closer's watch flag
    sp_pc,              \* start_peer: next line to run
    peers_and_metadata, \* the registry holds this connection's metadata
    peer_senders,       \* "none" | "ours" | "other": entry for this peer id
    c_pc,               \* peer_cleanup_task: "unspawned" | "waiting" | "done"
    subs,               \* history: messages accepted by each channel
    nenq,               \* history: number of messages enqueued so far
    ninj,               \* history: number of framing units the remote sent
    inj,                \* history: the framing units the remote sent (kept
                        \* by Spec and SpecD)
    enq_max,            \* environment: how many messages the applications send
    loopback            \* environment: the reader modelled is the peer's, it
                        \* decodes what this writer wrote

wvars == << wctx, w_pc, w_mm, w_exit, wire, frames_written, bytes_written >>
qvars == << to_send, to_send_high_prio >>
rvars == << rctx, r_pc, rin, dispatched, rt >>
pvars == << sp_pc, peers_and_metadata, peer_senders, c_pc >>
hvars == << subs, nenq, ninj, inj, enq_max, loopback >>
vars == << wvars, qvars, senders_dropped, rvars, eof, closed, pvars, hvars >>

\* ------------------------------------------------------------------- Init
\* The state at peer.rs:55: the channels, the Closer and the contexts exist,
\* the writer and reader tasks are spawned, the metadata is not inserted yet.
Init ==
    /\ wctx = WriterNew /\ w_pc = "top" /\ w_mm = None /\ w_exit = ""
    /\ to_send = << >> /\ to_send_high_prio = << >>
    /\ senders_dropped = FALSE
    /\ wire = << >> /\ frames_written = 0 /\ bytes_written = 0
    /\ rctx = ReaderNew /\ r_pc = "run" /\ rin = << >> /\ eof = FALSE
    /\ dispatched = << >> /\ rt = RoutingNew
    /\ closed = FALSE
    /\ sp_pc = "insert_metadata" /\ peers_and_metadata = FALSE
    /\ peer_senders = "none" /\ c_pc = "unspawned"
    /\ subs = [q \in {"normal", "high"} |-> << >>] /\ nenq = 0
    /\ ninj = 0 /\ inj = << >> /\ enq_max = MaxEnqPeer /\ loopback = FALSE

\* ------------------------------------------------------------ applications
\* what the applications send in Spec: an oversized message of three
\* framing units, or the disconnect command
CatalogP(tag) ==
    { MkMsg("DirectSendMsg", "", 1, 0, tag, 3 * MaxFrameSize),
      MkMsg("Error", "DisconnectCommand", 0, 0, tag, 0) }

\* what the applications send in SpecW: a message that just fits a frame, an
\* oversized one of three framing units, an oversized one of two
CatalogW(tag) ==
    { MkMsg("DirectSendMsg", "", 1, 0, tag, MaxFrameSize),
      MkMsg("DirectSendMsg", "", 1, 0, tag, 3 * MaxFrameSize),
      MkMsg("RpcRequest", "", 1, tag, tag, MaxFrameSize + 1) }

\* Sender::send on the normal (q = "normal") or high-priority channel
Enqueue(q, m) ==
    /\ nenq < enq_max
    /\ sp_pc \in {"spawn_cleanup", "returned"}
    /\ ~senders_dropped
    /\ w_pc \notin {"done", "panicked"}
    /\ IF q = "normal"
       THEN /\ Len(to_send) < ChanCap
            /\ to_send' = Append(to_send, m)
            /\ UNCHANGED to_send_high_prio
       ELSE /\ Len(to_send_high_prio) < ChanCap
            /\ to_send_high_prio' = Append(to_send_high_prio, m)
            /\ UNCHANGED to_send
    /\ subs' = [subs EXCEPT ![q] = Append(@, m)]
    /\ nenq' = nenq + 1
    /\ UNCHANGED << ninj, inj, enq_max, loopback >>
    /\ UNCHANGED << wvars, senders_dropped, rvars, eof, closed, pvars >>

EnqueueAny ==
    \E q \in {"normal", "high"} : \E m \in CatalogP(nenq + 1) : Enqueue(q, m)

EnqueueW ==
    \E q \in {"normal", "high"} : \E m \in CatalogW(nenq + 1) : Enqueue(q, m)

\* another start_peer for the same peer id replaces the entry (peer.rs:60):
\* the PeerStub of this connection is dropped and with it both Senders
StubReplaced ==
    /\ peer_senders = "ours" /\ ~senders_dropped
    /\ peer_senders' = "other"
    /\ senders_dropped' = TRUE
    /\ UNCHANGED << wvars, qvars, rvars, eof, closed,
                    sp_pc, peers_and_metadata, c_pc, hvars >>

\* the PeerStub removed by peer_cleanup_task is dropped
DropSenders ==
    /\ c_pc \in {"remove_metadata", "done"}
    /\ ~senders_dropped
    /\ senders_dropped' = TRUE
    /\ UNCHANGED << wvars, qvars, rvars, eof, closed, pvars, hvars >>

\* ------------------------------------------------------------- writer task
\* leaving the loop of run: closed.close() at peer.rs:296
\* faulty variant: run returning without closed.close()
WBreak_NoClose(w, why) ==
    /\ wctx' = w /\ w_pc' = "done" /\ w_mm' = None /\ w_exit' = why
    /\ UNCHANGED closed

WBreak(w, why) ==
    /\ wctx' = w /\ w_pc' = "done" /\ w_mm' = None /\ w_exit' = why
    /\ closed' = TRUE

\* faulty variant: run without the DisconnectCommand check
WEmit_NoDisconnect(out) ==
    IF out.panic
    THEN /\ wctx' = out.w /\ w_pc' = "panicked" /\ w_mm' = None
         /\ w_exit' = "panic" /\ UNCHANGED closed
    ELSE /\ wctx' = out.w /\ w_pc' = "send" /\ w_mm' = out.mm
         /\ UNCHANGED << w_exit, closed >>

\* after mm is computed: a panic unwinds the task, DisconnectCommand breaks,
\* anything else goes to writer.send
WEmit(out) ==
    IF out.panic
    THEN /\ wctx' = out.w /\ w_pc' = "panicked" /\ w_mm' = None
         /\ w_exit' = "panic" /\ UNCHANGED closed
    ELSE IF Unwrap(out.mm).type = "Message" /\ IsDisconnect(Unwrap(out.mm).message)
    THEN WBreak(out.w, "disconnect")
    ELSE /\ wctx' = out.w /\ w_pc' = "send" /\ w_mm' = out.mm
         /\ UNCHANGED << w_exit, closed >>

W_rest == << wire, frames_written, bytes_written, senders_dropped, rvars,
             eof, pvars, hvars >>

MidStream == IsSome(wctx.large_message)
Staged == IsSome(wctx.next_large_msg)

\* run, large_message.is_some(), send_large || next_large_msg.is_some()
WContinueLarge ==
    /\ w_pc = "top" /\ MidStream /\ ContinueLarge(wctx)
    /\ WEmit(NextLarge(wctx))
    /\ UNCHANGED << qvars, W_rest >>

\* try_next_msg -> try_high_prio_next_msg returns Some
WTryHigh ==
    /\ w_pc = "top" /\ MidStream /\ ~ContinueLarge(wctx)
    /\ to_send_high_prio # << >>
    /\ WEmit(TakeNonBlocking(wctx, Head(to_send_high_prio)))
    /\ to_send_high_prio' = Tail(to_send_high_prio)
    /\ UNCHANGED << to_send, W_rest >>

\* try_next_msg, to_send.try_recv() is Ok
WTryNormal ==
    /\ w_pc = "top" /\ MidStream /\ ~ContinueLarge(wctx)
    /\ to_send_high_prio = << >> /\ to_send # << >>
    /\ WEmit(TakeNonBlocking(wctx, Head(to_send)))
    /\ to_send' = Tail(to_send)
    /\ UNCHANGED << to_send_high_prio, W_rest >>

\* try_next_msg, TryRecvError::Empty
WTryEmpty ==
    /\ w_pc = "top" /\ MidStream /\ ~ContinueLarge(wctx)
    /\ to_send_high_prio = << >> /\ to_send = << >> /\ ~senders_dropped
    /\ WEmit(NextLarge(wctx))
    /\ UNCHANGED << qvars, W_rest >>

\* try_next_msg, TryRecvError::Disconnected
WTryDisconnected ==
    /\ w_pc = "top" /\ MidStream /\ ~ContinueLarge(wctx)
    /\ to_send_high_prio = << >> /\ to_send = << >> /\ senders_dropped
    /\ WBreak(wctx, "queue_closed")
    /\ UNCHANGED << qvars, W_rest >>

\* run, no stream in progress and a staged message
WStartStaged ==
    /\ w_pc = "top" /\ ~MidStream /\ Staged
    /\ WEmit(StartLarge([wctx EXCEPT !.next_large_msg = None],
                        Unwrap(wctx.next_large_msg)))
    /\ UNCHANGED << qvars, W_rest >>

\* run, idle: try_high_prio_next_msg returns Some (or panics in next_large)
WIdlePollHigh ==
    /\ w_pc = "top" /\ ~MidStream /\ ~Staged
    /\ to_send_high_prio # << >>
    /\ WEmit(TakeNonBlocking(wctx, Head(to_send_high_prio)))
    /\ to_send_high_prio' = Tail(to_send_high_prio)
    /\ UNCHANGED << to_send, W_rest >>

\* faulty variant: run entering select! without polling the high-priority channel
WIdlePollEmpty_NoPoll ==
    /\ w_pc = "top" /\ ~MidStream /\ ~Staged
    /\ w_pc' = "wait"
    /\ UNCHANGED << wctx, w_mm, w_exit, closed, qvars, W_rest >>

\* run, idle: try_high_prio_next_msg returns None, the task enters select!
WIdlePollEmpty ==
    /\ w_pc = "top" /\ ~MidStream /\ ~Staged
    /\ to_send_high_prio = << >>
    /\ w_pc' = "wait"
    /\ UNCHANGED << wctx, w_mm, w_exit, closed, qvars, W_rest >>

\* select!: to_send_high_prio.recv() is Some
WWaitHigh ==
    /\ w_pc = "wait" /\ to_send_high_prio # << >>
    /\ WEmit(TakeBlocking(wctx, Head(to_send_high_prio)))
    /\ to_send_high_prio' = Tail(to_send_high_prio)
    /\ UNCHANGED << to_send, W_rest >>

\* select!: to_send.recv() is Some
WWaitNormal ==
    /\ w_pc = "wait" /\ to_send # << >>
    /\ WEmit(TakeBlocking(wctx, Head(to_send)))
    /\ to_send' = Tail(to_send)
    /\ UNCHANGED << to_send_high_prio, W_rest >>

\* select!: to_send_high_prio.recv() is None (closed and empty)
WWaitHighClosed ==
    /\ w_pc = "wait" /\ to_send_high_prio = << >> /\ senders_dropped
    /\ WBreak(wctx, "queue_closed")
    /\ UNCHANGED << qvars, W_rest >>

\* select!: to_send.recv() is None (closed and empty)
WWaitNormalClosed ==
    /\ w_pc = "wait" /\ to_send = << >> /\ senders_dropped
    /\ WBreak(wctx, "queue_closed")
    /\ UNCHANGED << qvars, W_rest >>

\* faulty variant: the select! of run without the shutdown arm
WWaitShutdown_NoArm ==
    /\ w_pc = "wait" /\ closed
    /\ UNCHANGED vars

\* select!: closed.done.wait_for(|x| *x)
WWaitShutdown ==
    /\ w_pc = "wait" /\ closed
    /\ WBreak(wctx, "shutdown")
    /\ UNCHANGED << qvars, W_rest >>

\* MultiplexMessage::data_len()
UnitDataLen(u) == IF u.type = "Fragment" THEN Len(u.raw_data)
                  ELSE DataLen(u.message)

\* writer.send(&mm) is Ok: the unit is on the wire, the counters advance.
\* The send completes once the socket has room for the unit.  With loopback
\* the peer's reader decodes what was written unless its stream has ended.
WSendOk ==
    /\ w_pc = "send"
    /\ loopback /\ ~eof => Len(rin) < SockCap
    /\ wire' = Append(wire, Unwrap(w_mm))
    /\ rin' = IF loopback /\ ~eof THEN Append(rin, Unwrap(w_mm)) ELSE rin
    /\ frames_written' = frames_written + 1
    /\ bytes_written' = bytes_written + UnitDataLen(Unwrap(w_mm))
    /\ w_pc' = "top" /\ w_mm' = None
    /\ UNCHANGED << wctx, w_exit, closed, qvars, senders_dropped, rctx, r_pc,
                    dispatched, rt, eof, pvars, hvars >>

\* faulty variant: a failed write counted as a written frame
WSendErr_Counted ==
    /\ w_pc = "send"
    /\ WBreak(wctx, "write_err")
    /\ frames_written' = frames_written + 1
    /\ bytes_written' = bytes_written + UnitDataLen(Unwrap(w_mm))
    /\ UNCHANGED << qvars, wire, senders_dropped, rvars, eof, pvars, hvars >>

\* writer.send(&mm) is Err
WSendErr ==
    /\ w_pc = "send"
    /\ WBreak(wctx, "write_err")
    /\ UNCHANGED << qvars, W_rest >>

\* closed.wait() wins the select! around writer.send
WSendShutdown ==
    /\ w_pc = "send" /\ closed
    /\ WBreak(wctx, "shutdown")
    /\ UNCHANGED << qvars, W_rest >>

Writer ==
    \/ WContinueLarge \/ WTryHigh \/ WTryNormal \/ WTryEmpty
    \/ WTryDisconnected \/ WStartStaged \/ WIdlePollHigh \/ WIdlePollEmpty
    \/ WWaitHigh \/ WWaitNormal \/ WWaitHighClosed \/ WWaitNormalClosed
    \/ WWaitShutdown \/ WSendOk \/ WSendErr \/ WSendShutdown

\* ------------------------------------------------------------- reader task
R_rest == << wvars, qvars, senders_dropped, eof, pvars, hvars >>

\* faulty variant: an unfragmented message resets the defragment fields
RNext_MessageResets ==
    /\ r_pc = "run" /\ rin # << >>
    /\ rin' = Tail(rin)
    /\ LET u == Head(rin) IN
       CASE u.type = "Err" ->
              UNCHANGED << rctx, r_pc, dispatched, rt >>
         [] u.type = "Message" ->
              /\ dispatched' = Append(dispatched, u.message)
              /\ rt' = HandleMessage(rt, u.message)
              /\ rctx' = ReaderNew
              /\ UNCHANGED r_pc
         [] OTHER ->
              LET res == HandleStream(rctx, u) IN
              \E checked \in (IF res.overflow THEN BOOLEAN ELSE {FALSE}) :
                 IF res.panic \/ checked
                 THEN /\ r_pc' = "panicked"
                      /\ UNCHANGED << rctx, dispatched, rt >>
                 ELSE /\ rctx' = res.r
                      /\ r_pc' = r_pc
                      /\ IF IsSome(res.out)
                         THEN /\ dispatched' = Append(dispatched, Unwrap(res.out))
                              /\ rt' = HandleMessage(rt, Unwrap(res.out))
                         ELSE UNCHANGED << dispatched, rt >>
    /\ UNCHANGED << closed, R_rest >>

\* run: reader.next() yields Some(item); Ok(Message) goes to handle_message,
\* Ok(Stream) to handle_stream, Err is logged.  fragment_index += 1 beyond
\* 255 panics with overflow checks and wraps without them.
RNext ==
    /\ r_pc = "run" /\ rin # << >>
    /\ rin' = Tail(rin)
    /\ LET u == Head(rin) IN
       CASE u.type = "Err" ->
              UNCHANGED << rctx, r_pc, dispatched, rt >>
         [] u.type = "Message" ->
              /\ dispatched' = Append(dispatched, u.message)
              /\ rt' = HandleMessage(rt, u.message)
              /\ UNCHANGED << rctx, r_pc >>
         [] OTHER ->
              LET res == HandleStream(rctx, u) IN
              \E checked \in (IF res.overflow THEN BOOLEAN ELSE {FALSE}) :
                 IF res.panic \/ checked
                 THEN /\ r_pc' = "panicked"
                      /\ UNCHANGED << rctx, dispatched, rt >>
                 ELSE /\ rctx' = res.r
                      /\ r_pc' = r_pc
                      /\ IF IsSome(res.out)
                         THEN /\ dispatched' = Append(dispatched, Unwrap(res.out))
                              /\ rt' = HandleMessage(rt, Unwrap(res.out))
                         ELSE UNCHANGED << dispatched, rt >>
    /\ UNCHANGED << closed, R_rest >>

\* faulty variant: the reader returning at end of input without closed.close()
REof_NoClose ==
    /\ r_pc = "run" /\ rin = << >> /\ eof
    /\ r_pc' = "done"
    /\ UNCHANGED << rctx, rin, dispatched, rt, closed, R_rest >>

\* run: reader.next() yields None, break, closed.close()
REof ==
    /\ r_pc = "run" /\ rin = << >> /\ eof
    /\ r_pc' = "done" /\ closed' = TRUE
    /\ UNCHANGED << rctx, rin, dispatched, rt, R_rest >>

\* faulty variant: the reader's wait returning while the signal is open
RShutdown_NoWait ==
    /\ r_pc = "run"
    /\ r_pc' = "done"
    /\ UNCHANGED << rctx, rin, dispatched, rt, closed, R_rest >>

\* run: closed.done.wait_for(|x| *x) wins the select!, return
RShutdown ==
    /\ r_pc = "run" /\ closed
    /\ r_pc' = "done"
    /\ UNCHANGED << rctx, rin, dispatched, rt, closed, R_rest >>

Reader == RNext \/ REof \/ RShutdown

\* the remote peer's writer puts a framing unit on the inbound stream
Inject(u) ==
    /\ ~loopback /\ ~eof
    /\ r_pc = "run"
    /\ rin' = Append(rin, u)
    /\ ninj' = ninj + 1 /\ inj' = Append(inj, u)
    /\ UNCHANGED << wvars, qvars, senders_dropped, rctx, r_pc, dispatched, rt,
                    eof, closed, pvars, subs, nenq, enq_max, loopback >>

\* what the remote peer sends in Spec
InjectAny ==
    \E u \in { UMessage(MkMsg("DirectSendMsg", "", 1, 0, 100 + ninj, 1)) } :
        ninj < MaxInj /\ Inject(u)

\* the remote end closes the socket: the inbound stream ends
SocketEof ==
    /\ ~eof /\ eof' = TRUE
    /\ UNCHANGED << wvars, qvars, senders_dropped, rvars, closed, pvars, hvars >>

\* a holder of a clone of the Closer (the PeerStub) closes it
ExternalClose ==
    /\ sp_pc \in {"spawn_cleanup", "returned"} /\ ~closed
    /\ closed' = TRUE
    /\ UNCHANGED << wvars, qvars, senders_dropped, rvars, eof, pvars, hvars >>

\* -------------------------------------------------------------- start_peer
P_rest == << wvars, qvars, senders_dropped, rvars, eof, closed, hvars >>

\* peer.rs:57 insert_connection_metadata, Ok or Err
SPInsertMetadata ==
    /\ sp_pc = "insert_metadata"
    /\ \E ok \in BOOLEAN : peers_and_metadata' = ok
    /\ sp_pc' = "insert_stub"
    /\ UNCHANGED << peer_senders, c_pc, P_rest >>

\* peer.rs:60 peer_senders.insert
SPInsertStub ==
    /\ sp_pc = "insert_stub"
    /\ peer_senders' = "ours"
    /\ sp_pc' = "spawn_cleanup"
    /\ UNCHANGED << peers_and_metadata, c_pc, P_rest >>

\* peer.rs:61 handle.spawn(peer_cleanup_task)
SPSpawnCleanup ==
    /\ sp_pc = "spawn_cleanup"
    /\ c_pc' = "waiting"
    /\ sp_pc' = "returned"
    /\ UNCHANGED << peers_and_metadata, peer_senders, P_rest >>

StartPeer == SPInsertMetadata \/ SPInsertStub \/ SPSpawnCleanup

\* faulty variant: peer_cleanup_task without closed.wait()
CleanupRemoveStub_NoWait ==
    /\ c_pc = "waiting"
    /\ peer_senders' = "none"
    /\ c_pc' = "remove_metadata"
    /\ UNCHANGED << sp_pc, peers_and_metadata, P_rest >>

\* ------------------------------------------------------- peer_cleanup_task
\* closed.wait() returns, peer_senders.remove
CleanupRemoveStub ==
    /\ c_pc = "waiting" /\ closed
    /\ peer_senders' = "none"
    /\ c_pc' = "remove_metadata"
    /\ UNCHANGED << sp_pc, peers_and_metadata, P_rest >>

\* peers_and_metadata.remove_peer_metadata
CleanupRemoveMetadata ==
    /\ c_pc = "remove_metadata"
    /\ peers_and_metadata' = FALSE
    /\ c_pc' = "done"
    /\ UNCHANGED << sp_pc, peer_senders, P_rest >>

Cleanup == CleanupRemoveStub \/ CleanupRemoveMetadata

\* --------------------------------------------------------- specifications
Next ==
    \/ EnqueueAny \/ StubReplaced \/ DropSenders \/ SocketEof \/ ExternalClose
    \/ InjectAny
    \/ WContinueLarge \/ WTryHigh \/ WTryNormal \/ WTryEmpty
    \/ WTryDisconnected \/ WStartStaged \/ WIdlePollHigh \/ WIdlePollEmpty
    \/ WWaitHigh \/ WWaitNormal \/ WWaitHighClosed \/ WWaitNormalClosed
    \/ WWaitShutdown \/ WSendOk \/ WSendErr \/ WSendShutdown
    \/ RNext \/ REof \/ RShutdown
    \/ SPInsertMetadata \/ SPInsertStub \/ SPSpawnCleanup
    \/ CleanupRemoveStub \/ CleanupRemoveMetadata

Spec == Init /\ [][Next]_vars

\* The writer and the peer's reader under application traffic, from the state
\* in which start_peer has returned.  Nothing but the writer closes the
\* Closer here, and the cleanup task is not scheduled.
InitW ==
    /\ wctx = WriterNew /\ w_pc = "top" /\ w_mm = None /\ w_exit = ""
    /\ to_send = << >> /\ to_send_high_prio = << >>
    /\ senders_dropped = FALSE
    /\ wire = << >> /\ frames_written = 0 /\ bytes_written = 0
    /\ rctx = ReaderNew /\ r_pc = "run" /\ rin = << >> /\ eof = FALSE
    /\ dispatched = << >> /\ rt = RoutingNew
    /\ closed = FALSE
    /\ sp_pc = "returned" /\ peers_and_metadata = TRUE
    /\ peer_senders = "ours" /\ c_pc = "waiting"
    /\ subs = [q \in {"normal", "high"} |-> << >>] /\ nenq = 0
    /\ ninj = 0 /\ inj = << >> /\ enq_max = MaxEnq /\ loopback = TRUE

NextW ==
    \/ EnqueueW \/ StubReplaced
    \/ WContinueLarge \/ WTryHigh \/ WTryNormal \/ WTryEmpty
    \/ WTryDisconnected \/ WStartStaged \/ WIdlePollHigh \/ WIdlePollEmpty
    \/ WWaitHigh \/ WWaitNormal \/ WWaitHighClosed \/ WWaitNormalClosed
    \/ WSendOk \/ WSendErr
    \/ RNext \/ RShutdown

SpecW == InitW /\ [][NextW]_vars

\* One message through the writer's blocking path and the peer's reader: the
\* message is in the normal channel when the writer first waits, no write
\* fails, nothing else is enqueued.
RTLens ==
    { 0, 1, MaxFrameSize - 1, MaxFrameSize, MaxFrameSize + 1, 3 * MaxFrameSize,
      (MaxFragments - 1) * MaxFrameSize, MaxFragments * MaxFrameSize,
      MaxFragments * MaxFrameSize + 1 }

RTInputs ==
    { MkMsg(k, "", 1, 1, 1, len) :
        k \in {"DirectSendMsg", "RpcRequest", "RpcResponse"}, len \in RTLens }

InitRT ==
    /\ wctx = WriterNew /\ w_pc = "top" /\ w_mm = None /\ w_exit = ""
    /\ \E m \in RTInputs :
          /\ to_send = << m >>
          /\ subs = [q \in {"normal", "high"} |->
                        IF q = "normal" THEN << m >> ELSE << >>]
    /\ to_send_high_prio = << >>
    /\ senders_dropped = FALSE
    /\ wire = << >> /\ frames_written = 0 /\ bytes_written = 0
    /\ rctx = ReaderNew /\ r_pc = "run" /\ rin = << >> /\ eof = FALSE
    /\ dispatched = << >> /\ rt = RoutingNew
    /\ closed = FALSE
    /\ sp_pc = "returned" /\ peers_and_metadata = TRUE
    /\ peer_senders = "ours" /\ c_pc = "waiting"
    /\ nenq = 1 /\ ninj = 0 /\ inj = << >> /\ enq_max = 1 /\ loopback = TRUE

NextRT ==
    \/ WIdlePollEmpty \/ WWaitNormal \/ WTryEmpty \/ WSendOk
    \/ RNext

SpecRT == InitRT /\ [][NextRT]_vars

\* The reader of a connection whose remote end sends any sequence of up to
\* MaxInjR framing units, well-formed or not, while applications drop their
\* receivers, rpcs are registered and swept, the socket ends and the
\* Shutdown Signal fires.
StreamA == 1
StreamB == 2
StreamStray == 9
RpcIds == {1}

SmallDS == MkMsg("DirectSendMsg", "", 1, 0, 101, 1)
SmallResp == MkMsg("RpcResponse", "", 0, 1, 102, 1)
ErrMsg == MkMsg("Error", "NotSupported", 0, 0, 103, 0)
Unrouted == MkMsg("DirectSendMsg", "", 3, 0, 104, 1)
LargeA == MkMsg("DirectSendMsg", "", 1, 0, 105, MaxFrameSize + 2)
LargeB == MkMsg("RpcRequest", "", 2, 7, 106, MaxFrameSize + 1)

HeaderA == UHeader(StreamA, 3, [LargeA EXCEPT !.data = SplitKeep(@, MaxFrameSize)])
FragA1 == UFragment(StreamA, 1, << LargeA.data[MaxFrameSize + 1] >>)
FragA2 == UFragment(StreamA, 2, << LargeA.data[MaxFrameSize + 2] >>)
HeaderB == UHeader(StreamB, 2, [LargeB EXCEPT !.data = SplitKeep(@, MaxFrameSize)])
FragB1 == UFragment(StreamB, 1, SplitRest(LargeB.data, MaxFrameSize))
Stray == UFragment(StreamStray, 1, << 255 >>)

CatalogR ==
    { UMessage(SmallDS), UMessage(SmallResp), UMessage(ErrMsg),
      UMessage(Unrouted), HeaderA, FragA1, HeaderB, FragB1, Stray, UErr }

InjectR ==
    \E u \in CatalogR :
        /\ ninj < MaxInjR /\ Len(rin) < SockCap /\ ~eof /\ r_pc = "run"
        /\ rin' = Append(rin, u)
        /\ ninj' = ninj + 1 /\ UNCHANGED inj
        /\ UNCHANGED << wvars, qvars, senders_dropped, rctx, r_pc, dispatched,
                        rt, eof, closed, pvars, subs, nenq, enq_max, loopback >>

\* an application drops the receiver of its inbound channel
AppDrop ==
    \E p \in Apps :
        /\ p \notin rt.app_closed /\ r_pc = "run"
        /\ rt' = [rt EXCEPT !.app_closed = @ \cup {p}]
        /\ UNCHANGED << wvars, qvars, senders_dropped, rctx, r_pc, rin,
                        dispatched, eof, closed, pvars, hvars >>

\* the PeerStub registers an outbound rpc in the OutboundRpcMatcher
RpcRegister ==
    \E id \in RpcIds :
        /\ id \notin rt.open_outbound_rpc /\ r_pc = "run"
        /\ rt' = [rt EXCEPT !.open_outbound_rpc = @ \cup {id}]
        /\ UNCHANGED << wvars, qvars, senders_dropped, rctx, r_pc, rin,
                        dispatched, eof, closed, pvars, hvars >>

\* the OutboundRpcMatcher cleanup task sweeps a pending rpc that timed out
RpcSweep ==
    \E id \in rt.open_outbound_rpc :
        /\ r_pc = "run"
        /\ rt' = [rt EXCEPT !.open_outbound_rpc = @ \ {id}]
        /\ UNCHANGED << wvars, qvars, senders_dropped, rctx, r_pc, rin,
                        dispatched, eof, closed, pvars, hvars >>

InitR ==
    /\ wctx = WriterNew /\ w_pc = "top" /\ w_mm = None /\ w_exit = ""
    /\ to_send = << >> /\ to_send_high_prio = << >>
    /\ senders_dropped = FALSE
    /\ wire = << >> /\ frames_written = 0 /\ bytes_written = 0
    /\ rctx = ReaderNew /\ r_pc = "run" /\ rin = << >> /\ eof = FALSE
    /\ dispatched = << >> /\ rt = RoutingNew
    /\ closed = FALSE
    /\ sp_pc = "returned" /\ peers_and_metadata = TRUE
    /\ peer_senders = "ours" /\ c_pc = "waiting"
    /\ subs = [q \in {"normal", "high"} |-> << >>] /\ nenq = 0
    /\ ninj = 0 /\ inj = << >> /\ enq_max = 0 /\ loopback = FALSE

NextR ==
    \/ InjectR \/ AppDrop \/ RpcRegister \/ RpcSweep
    \/ SocketEof \/ ExternalClose
    \/ RNext \/ REof \/ RShutdown

SpecR == InitR /\ [][NextR]_vars

\* The reader's defragmentation alone: the remote end sends any sequence of
\* up to MaxInjD stream units, and the socket stays open.
CatalogD == { HeaderA, FragA1, FragA2, HeaderB, FragB1, Stray }

InjectD == \E u \in CatalogD : ninj < MaxInjD /\ Inject(u)

NextD == InjectD \/ RNext

SpecD == InitR /\ [][NextD]_vars

\* The reader's defragmentation under a remote end that breaks the stream
\* protocol: a fragment numbered 0, a header that declares one fragment.
StreamOne == 3
FragA0 == UFragment(StreamA, 0, << 254 >>)
HeaderOne == UHeader(StreamOne, 1, SmallDS)

CatalogM == { HeaderA, FragA1, FragA2, FragA0, HeaderOne, Stray }

InjectM == \E u \in CatalogM : ninj < MaxInjM /\ Inject(u)

NextM == InjectM \/ RNext

SpecM == InitR /\ [][NextM]_vars

\* The reader's defragmentation under a remote end that declares a count of 0
\* or 1 and then sends fragment after fragment with the sequence number the
\* reader expects: 1, 2, ..., 255, 0, 1.
StreamZero == 4
HeaderZero == UHeader(StreamZero, 0, MkMsg("DirectSendMsg", "", 1, 0, 107, 1))

InjectO ==
    /\ ninj < MaxInjO /\ Len(rin) < SockCap
    /\ \E u \in (IF ninj = 0 THEN { HeaderZero, HeaderOne }
                 ELSE { UFragment(inj[1].request_id, ninj % U8,
                                  << ninj % U8 >>) }) :
          Inject(u)

NextO == InjectO \/ RNext

SpecO == InitR /\ [][NextO]_vars

\* ------------------------------------------------------ reading the wire
IsStream(u) == u.type \in {"Header", "Fragment"}
Small(m) == DataLen(m) <= MaxFrameSize
Queues == {"normal", "high"}

\* wire[j] is the last fragment of the stream whose header is wire[h]
LastFragment(h, j) ==
    /\ wire[j].type = "Fragment"
    /\ wire[j].request_id = wire[h].request_id
    /\ wire[j].fragment_id = wire[h].num_fragments - 1

\* the stream whose header is wire[h] was written completely before wire[p]
StreamDoneBefore(h, p) == \E j \in (h + 1)..(p - 1) : LastFragment(h, j)

\* the submission number of the message wire[p] belongs to
UnitTag(p) ==
    IF wire[p].type = "Fragment"
    THEN LET h == CHOOSE h \in 1..p : /\ wire[h].type = "Header"
                                      /\ wire[h].request_id = wire[p].request_id
         IN wire[h].message.tag
    ELSE wire[p].message.tag

Positions(tag) == { p \in 1..Len(wire) : UnitTag(p) = tag }
FirstPos(tag) == CHOOSE p \in Positions(tag) : \A x \in Positions(tag) : p <= x

Tags(q) == { subs[q][i].tag : i \in 1..Len(subs[q]) }
IsPrefix(a, b) == Len(a) <= Len(b) /\ a = SubSeq(b, 1, Len(a))

\* the unfragmented messages of channel q on the wire, in wire order
WireMsgs(q) ==
    LET us == SelectSeq(wire, LAMBDA u : u.type = "Message" /\ u.message.tag \in Tags(q))
    IN [i \in 1..Len(us) |-> us[i].message]

\* the messages of channel q the peer's reader dispatched, in dispatch order
DispMsgs(q) == SelectSeq(dispatched, LAMBDA m : m.tag \in Tags(q))

WriterIdle == w_pc = "wait" /\ to_send = << >> /\ to_send_high_prio = << >>

\* the one message of SpecRT, and its round trip being over
RTMsg == subs["normal"][1]
RTDone == WriterIdle /\ rin = << >> /\ wire # << >>
RTCeil(len) == (len + MaxFrameSize - 1) \div MaxFrameSize

\* the stream header expected for an oversized message
HeaderOf(msg) ==
    UHeader(wctx.stream_request_id + 1, RTCeil(DataLen(msg)),
            [msg EXCEPT !.data = SplitKeep(msg.data, MaxFrameSize)])

TaskOver(pc) == pc \in {"done", "panicked"}

TornDown ==
    /\ TaskOver(w_pc) /\ TaskOver(r_pc) /\ c_pc = "done"
    /\ ~peers_and_metadata /\ peer_senders = "none"

\* ------------------------------------------------------------------ claims

\* C1 as stated: no unfragmented message is written between the header of a
\* stream and that stream's last fragment.
C1_NoMessageMidStream ==
    \A k \in 1..Len(wire) :
        wire[k].type = "Message" =>
            \A h \in 1..(k - 1) :
                wire[h].type = "Header" => StreamDoneBefore(h, k)

\* C1 amended: an unfragmented message written between the header of a
\* stream and that stream's last fragment is a small message, and the unit
\* written just before it is a unit of that stream (so at most one message
\* separates two consecutive units of a stream).
C1_SmallMessagesAlternate ==
    \A k \in 1..Len(wire) :
        wire[k].type = "Message" =>
            \A h \in 1..(k - 1) :
                (wire[h].type = "Header" /\ ~StreamDoneBefore(h, k)) =>
                    /\ Small(wire[k].message)
                    /\ IsStream(wire[k - 1])
                    /\ wire[k - 1].request_id = wire[h].request_id

\* C1 witness: the scenario of the claim, with the small high-priority
\* message on the wire right after the header and before both fragments.
C1_Witness ==
    /\ Len(subs["normal"]) = 1 /\ Len(subs["high"]) = 1
    /\ DataLen(subs["normal"][1]) = 3 * MaxFrameSize
    /\ Small(subs["high"][1])
    /\ subs["normal"][1].tag < subs["high"][1].tag
    /\ Len(wire) = 4
    /\ wire[1].type = "Header" /\ wire[1].num_fragments = 3
    /\ wire[2] = UMessage(subs["high"][1])
    /\ wire[3].type = "Fragment" /\ wire[4].type = "Fragment"

\* C2: between the header of a stream and its last fragment every stream
\* unit on the wire carries that stream's id; in particular a later header
\* is written only after the last fragment of every earlier stream.
C2_StreamsNotInterleaved ==
    \A h \in 1..Len(wire) : \A p \in (h + 1)..Len(wire) :
        (/\ wire[h].type = "Header"
         /\ IsStream(wire[p])
         /\ wire[p].request_id # wire[h].request_id) => StreamDoneBefore(h, p)

\* C2 witness: two streams of different channels on the wire, the second
\* header directly after the last fragment of the first, and a small message
\* written between the units of the first.
C2_Witness ==
    \E h1 \in 1..Len(wire) : \E h2 \in (h1 + 1)..Len(wire) :
        /\ wire[h1].type = "Header" /\ wire[h2].type = "Header"
        /\ wire[h1].request_id # wire[h2].request_id
        /\ LastFragment(h1, h2 - 1)
        /\ \E q \in Queues : /\ wire[h1].message.tag \in Tags(q)
                             /\ wire[h2].message.tag \notin Tags(q)
        /\ \E k \in (h1 + 1)..(h2 - 1) : wire[k].type = "Message"

\* C5: for a channel on which only small messages were submitted, the
\* messages on the wire are a prefix of the submissions, in order and with
\* unchanged content, never fragmented; the peer's reader dispatches them
\* in that order; and once the writer is idle (and the reader has drained
\* the socket) all of them are on the wire (dispatched).
C5_SmallInOrder ==
    \A q \in Queues :
        (\A i \in 1..Len(subs[q]) : Small(subs[q][i])) =>
            /\ IsPrefix(WireMsgs(q), subs[q])
            /\ IsPrefix(DispMsgs(q), WireMsgs(q))
            /\ \A p \in 1..Len(wire) : IsStream(wire[p]) => UnitTag(p) \notin Tags(q)
            /\ WriterIdle => WireMsgs(q) = subs[q]
            /\ (WriterIdle /\ rin = << >> /\ r_pc = "run") => DispMsgs(q) = subs[q]

\* C5 witness: two small messages of one channel dispatched, in order, with
\* a stream of the other channel on the wire between them.
C5_Witness ==
    \E q \in Queues :
        /\ Len(subs[q]) = 2
        /\ \A i \in 1..Len(subs[q]) : Small(subs[q][i])
        /\ DispMsgs(q) = subs[q]
        /\ \E a \in Positions(subs[q][1].tag) : \E b \in Positions(subs[q][2].tag) :
              \E k \in (a + 1)..(b - 1) : IsStream(wire[k])

\* C6 as stated: every framing unit of an earlier submission of a channel
\* is written before every framing unit of a later submission of it.
C6_AllUnitsInOrder ==
    \A q \in Queues : \A i \in 1..Len(subs[q]) : \A j \in (i + 1)..Len(subs[q]) :
        \A pa \in Positions(subs[q][i].tag) : \A pb \in Positions(subs[q][j].tag) :
            pa < pb

\* C6 amended: submissions of a channel start on the wire in submission
\* order (first unit before first unit); every unit of the earlier one comes
\* first unless the earlier one is oversized and the later one is small.
C6_FirstUnitsInOrder ==
    \A q \in Queues : \A i \in 1..Len(subs[q]) : \A j \in (i + 1)..Len(subs[q]) :
        LET A == subs[q][i]
            B == subs[q][j]
        IN Positions(B.tag) # {} =>
              /\ Positions(A.tag) # {}
              /\ FirstPos(A.tag) < FirstPos(B.tag)
              /\ (Small(A) \/ ~Small(B)) =>
                    \A pa \in Positions(A.tag) : \A pb \in Positions(B.tag) : pa < pb

\* C6 witness: a small message written between the units of an oversized
\* message submitted before it on the same channel.
C6_Witness ==
    \E q \in Queues : \E i \in 1..Len(subs[q]) : \E j \in (i + 1)..Len(subs[q]) :
        /\ ~Small(subs[q][i]) /\ Small(subs[q][j])
        /\ \E pa \in Positions(subs[q][i].tag) : \E pb \in Positions(subs[q][j].tag) :
              pb < pa

\* C7 as stated: the writer does not leave its loop because a channel is
\* closed while a stream is partly written, a message is staged, or a
\* channel still holds an unsent message.
C7_NoExitOnClosureWithWork ==
    (w_pc = "done" /\ w_exit = "queue_closed") =>
        /\ IsNone(wctx.large_message) /\ IsNone(wctx.next_large_msg)
        /\ to_send = << >> /\ to_send_high_prio = << >>

\* C8 as stated: when the writer, with no stream in progress and nothing
\* staged, takes an oversized message off either channel, it does not fail:
\* the unit it is about to write is a stream header with a new stream id,
\* the first max_frame_size bytes and the fragment count.
C8_OversizedStartsStream ==
    [][/\ (/\ ~MidStream /\ ~Staged /\ w_pc \in {"top", "wait"}
           /\ to_send_high_prio # << >>
           /\ to_send_high_prio' = Tail(to_send_high_prio)
           /\ ~Small(Head(to_send_high_prio)))
          => /\ w_pc' = "send"
             /\ w_mm' = Some(HeaderOf(Head(to_send_high_prio)))
       /\ (/\ ~MidStream /\ ~Staged /\ w_pc \in {"top", "wait"}
           /\ to_send # << >>
           /\ to_send' = Tail(to_send)
           /\ ~Small(Head(to_send)))
          => /\ w_pc' = "send"
             /\ w_mm' = Some(HeaderOf(Head(to_send)))]_vars

\* C3: a message sent alone through the writer and the peer's reader.
\* Up to max_frame_size bytes it is one unfragmented unit; above that and up
\* to 254 * max_frame_size it is a header and ceil(len / max_frame_size) - 1
\* fragments; in both cases the reader dispatches nothing but that message,
\* and exactly it, once, when all units are consumed.
C3_RoundTrip ==
    DataLen(RTMsg) <= (MaxFragments - 1) * MaxFrameSize =>
        /\ \A i \in 1..Len(dispatched) : dispatched[i] = RTMsg
        /\ Len(dispatched) <= 1
        /\ Small(RTMsg) => \A p \in 1..Len(wire) : wire[p] = UMessage(RTMsg)
        /\ ~Small(RTMsg) => \A p \in 1..Len(wire) : IsStream(wire[p])
        /\ RTDone => /\ dispatched = << RTMsg >>
                     /\ IsNone(rctx.large_message)
                     /\ Len(wire) = IF Small(RTMsg) THEN 1
                                    ELSE RTCeil(DataLen(RTMsg))

\* C3 witness: a message of 254 * max_frame_size bytes reassembled
C3_Witness ==
    /\ DataLen(RTMsg) = (MaxFragments - 1) * MaxFrameSize
    /\ RTDone /\ dispatched = << RTMsg >>

\* C4 as stated: for a payload of exactly 255 * max_frame_size bytes no
\* stream header is emitted.
C4_NoHeaderAt255 ==
    DataLen(RTMsg) = MaxFragments * MaxFrameSize =>
        /\ IsNone(w_mm) \/ Unwrap(w_mm).type # "Header"
        /\ \A p \in 1..Len(wire) : wire[p].type # "Header"

\* C4 amended: a payload of more than 255 * max_frame_size bytes fails in
\* start_large and no unit of it is emitted; a payload of exactly
\* 255 * max_frame_size bytes is sent as a header declaring 255 fragments and
\* 254 fragments, and reassembles to the original.
C4_FailFastAbove255 ==
    /\ DataLen(RTMsg) > MaxFragments * MaxFrameSize =>
          /\ wire = << >> /\ IsNone(w_mm)
          /\ to_send = << >> => w_pc = "panicked"
    /\ DataLen(RTMsg) = MaxFragments * MaxFrameSize =>
          /\ w_pc # "panicked"
          /\ wire # << >> => wire[1].type = "Header"
                             /\ wire[1].num_fragments = MaxFragments
          /\ RTDone => dispatched = << RTMsg >> /\ Len(wire) = MaxFragments

\* C4 witness: the writer panicked on 255 * max_frame_size + 1 bytes
C4_Witness ==
    /\ DataLen(RTMsg) = MaxFragments * MaxFrameSize + 1
    /\ w_pc = "panicked" /\ wire = << >>

\* C10 as stated: the registry never holds this connection's metadata
\* while the writer task and the reader task have both exited.
C10_RegistryNeverStale ==
    ~(peers_and_metadata /\ TaskOver(w_pc) /\ TaskOver(r_pc))

\* The connection without inbound traffic: the reader waits for the socket to
\* end or for the Shutdown Signal.
ReaderL == REof \/ RShutdown

NextL ==
    \/ EnqueueAny \/ StubReplaced \/ DropSenders \/ SocketEof \/ ExternalClose
    \/ Writer \/ ReaderL \/ StartPeer \/ Cleanup

\* The tokio runtime polls every task that can make progress: each of the
\* four tasks of the connection takes a step when one stays possible.
FairSpec ==
    /\ Init /\ [][NextL]_vars
    /\ WF_vars(Writer) /\ WF_vars(ReaderL)
    /\ WF_vars(StartPeer) /\ WF_vars(Cleanup)

\* C9: once the Shutdown Signal has fired, under fair scheduling the writer
\* and the reader terminate, the cleanup task runs, and from then on neither
\* the peer registry nor the outbound-handle map holds an entry of this
\* connection -- whether the writer was idle, mid-stream, staged or blocked
\* in a socket write when the signal fired.
C9_ShutdownTearsDown == closed ~> []TornDown

\* C9 witness: all torn down after the signal reached a writer that had a
\* stream in progress and was in the select! around the socket write.
C9_Witness ==
    /\ closed /\ TornDown
    /\ w_exit = "shutdown" /\ IsSome(wctx.large_message) /\ r_pc = "done"

\* a unit of the wire or of w_mm is the disconnect control message
IsDisconnectUnit(u) == u.type = "Message" /\ IsDisconnect(u.message)

RemovesEntry ==
    \/ peers_and_metadata /\ ~peers_and_metadata'
    \/ peer_senders # "none" /\ peer_senders' = "none"
    \/ c_pc = "waiting" /\ c_pc' # "waiting"

InsertsEntry ==
    \/ ~peers_and_metadata /\ peers_and_metadata'
    \/ peer_senders = "none" /\ peer_senders' # "none"

\* C11: the cleanup task removes the outbound handle and the metadata only
\* when the Shutdown Signal has fired and start_peer has made its insertions;
\* nothing is inserted once the cleanup task runs, and once it is done
\* neither the registry nor the outbound-handle map holds an entry.
C11_RemovalAfterSignalAndInsert ==
    /\ [][/\ RemovesEntry => (closed /\ sp_pc = "returned")
          /\ InsertsEntry => c_pc = "unspawned"]_vars
    /\ [](c_pc = "done" => (~peers_and_metadata /\ peer_senders = "none"))

\* C11 witness: the signal has fired, the cleanup task has removed the
\* outbound handle and is about to remove the metadata start_peer inserted.
C11_Witness ==
    /\ c_pc = "remove_metadata" /\ closed /\ sp_pc = "returned"
    /\ peers_and_metadata /\ peer_senders = "none"

\* C18: when the writer dequeues DisconnectCommand it ends in that step: the
\* signal is fired, the disconnect message is never written, and from then
\* on nothing is written (the rest of a stream in progress or staged stays
\* unsent) and nothing is dequeued.
C18_DisconnectEndsWriter ==
    /\ [](/\ \A p \in 1..Len(wire) : ~IsDisconnectUnit(wire[p])
          /\ IsSome(w_mm) => ~IsDisconnectUnit(Unwrap(w_mm))
          /\ w_exit = "disconnect" => (w_pc = "done" /\ closed))
    /\ [][/\ (/\ to_send_high_prio # << >>
              /\ to_send_high_prio' = Tail(to_send_high_prio)
              /\ IsDisconnect(Head(to_send_high_prio)))
             => (w_exit' = "disconnect" /\ wire' = wire /\ closed')
          /\ (/\ to_send # << >>
              /\ to_send' = Tail(to_send)
              /\ IsDisconnect(Head(to_send)))
             => (w_exit' = "disconnect" /\ wire' = wire /\ closed')
          /\ w_exit = "disconnect"
             => (wire' = wire /\ qvars' = qvars /\ wctx' = wctx
                 /\ w_pc' = "done")]_vars

\* C18 witness: the writer ended on DisconnectCommand with the header of a
\* stream written and the rest of its payload unsent.
C18_Witness ==
    /\ w_exit = "disconnect" /\ closed
    /\ IsSome(wctx.large_message)
    /\ wire # << >> /\ wire[Len(wire)].type = "Header"

\* C19: whenever run has left its loop (write failure, channel closed,
\* disconnect command, signal observed) the Shutdown Signal is closed; the
\* unit whose write failed is not on the wire and nothing is written after.
C19_WriterExitClosesSignal ==
    /\ [](w_pc = "done" =>
            (closed /\ w_exit \in {"write_err", "queue_closed", "disconnect",
                                   "shutdown"}))
    /\ [][/\ (w_pc = "send" /\ w_exit' = "write_err")
             => (closed' /\ wire' = wire /\ w_pc' = "done")
          /\ w_pc = "done" => (wire' = wire /\ w_pc' = "done")]_vars

\* C19 witness: a socket write failed after an earlier unit was written
C19_Witness ==
    /\ w_pc = "done" /\ w_exit = "write_err" /\ closed /\ wire # << >>

WaitReturns ==
    \/ r_pc = "run" /\ r_pc' = "done" /\ ~(rin = << >> /\ eof)
    \/ w_exit # "shutdown" /\ w_exit' = "shutdown"
    \/ c_pc = "waiting" /\ c_pc' # "waiting"

Consumed == SubSeq(inj, 1, Len(inj) - Len(rin))

\* the messages whose legitimate stream (the header directly followed by its
\* fragments in order) is in seq, in the order the streams end
RECURSIVE Legit(_)
Legit(seq) ==
    IF seq = << >> THEN << >>
    ELSE LET n == Len(seq)
             done == IF n >= 3 /\ SubSeq(seq, n - 2, n) = << HeaderA, FragA1, FragA2 >>
                     THEN << LargeA >>
                     ELSE IF n >= 2 /\ SubSeq(seq, n - 1, n) = << HeaderB, FragB1 >>
                     THEN << LargeB >>
                     ELSE << >>
         IN Legit(SubSeq(seq, 1, n - 1)) \o done

StrayFor(r) == { u \in CatalogD : u.type = "Fragment"
                                  /\ u.request_id # r.current_stream_id }

\* C15: a fragment of another stream than the tracked one is dropped (nothing
\* is dispatched, the reader goes on); dropping it twice leaves the state
\* dropping it once leaves; and whatever units came before, exactly the
\* legitimate streams are dispatched, each with exactly its own payload.
C15_StrayFragmentRecovery ==
    /\ [](/\ dispatched = Legit(Consumed)
          /\ \A u \in StrayFor(rctx) :
                LET once == HandleStream(rctx, u)
                    twice == HandleStream(once.r, u)
                IN /\ IsNone(once.out) /\ ~once.panic
                   /\ IsNone(twice.out) /\ twice.r = once.r)
    /\ [][(/\ rin # << >> /\ rin' = Tail(rin)
           /\ Head(rin) \in StrayFor(rctx))
          => (dispatched' = dispatched /\ rt' = rt /\ r_pc' = "run"
              /\ closed' = closed)]_vars

\* C15 witness: a stray fragment aborted stream A, and stream B, sent next,
\* was dispatched alone and whole.
C15_Witness ==
    /\ inj = << HeaderA, FragA1, Stray, HeaderB, FragB1 >>
    /\ rin = << >> /\ dispatched = << LargeB >>
    /\ r_pc = "run"

\* ----------------------------------------------------- reading a reader step
\* the reader consumes the unit at the head of the inbound stream
Consumes == rin # << >> /\ rin' = Tail(rin)
\* the reader passes a complete message to handle_message
Dispatches == dispatched' # dispatched
Dispatched == dispatched'[Len(dispatched')]
\* a message forward offers to a registered application
Routed(m) == m.kind \in {"RpcRequest", "DirectSendMsg"} /\ m.protocol_id \in Apps
\* try_send on the application's channel succeeds
CanAccept(p) == Len(rt.app_inbox[p]) < AppCap /\ p \notin rt.app_closed
Delivery(m) == [message |-> m, sender |-> RemotePeer]
ReaderGoesOn == r_pc' = "run" /\ closed' = closed

\* C12: forwarding a message to a registered application is one try_send:
\* with room in an open channel it is appended and the read counters count
\* it; with the channel full or closed the channel is unchanged and the drop
\* counters count it; either way the reassembly state is what the unit
\* alone makes it and the reader goes on; the reader can always consume the
\* next unit, whatever the channels hold; every forwarded message is counted
\* exactly once.
C12_ForwardNeverBlocks ==
    /\ [][(Dispatches /\ Routed(Dispatched)) =>
             LET m == Dispatched
                 p == m.protocol_id
             IN /\ ReaderGoesOn
                /\ Head(rin).type = "Message" => rctx' = rctx
                /\ Head(rin).type = "Fragment" => IsNone(rctx'.large_message)
                /\ rt'.open_outbound_rpc = rt.open_outbound_rpc
                /\ IF CanAccept(p)
                   THEN /\ rt'.app_inbox =
                             [rt.app_inbox EXCEPT ![p] = Append(@, Delivery(m))]
                        /\ rt'.rcount =
                             [rt.rcount EXCEPT !.read_msgs = @ + 1,
                                               !.read_bytes = @ + DataLen(m)]
                   ELSE /\ rt'.app_inbox = rt.app_inbox
                        /\ rt'.rcount =
                             [rt.rcount EXCEPT !.drop_msgs = @ + 1,
                                               !.drop_bytes = @ + DataLen(m)]]_vars
    /\ [](/\ (r_pc = "run" /\ rin # << >>) => ENABLED RNext
          /\ rt.rcount.read_msgs + rt.rcount.drop_msgs =
                Len(SelectSeq(dispatched, Routed))
          /\ rt.rcount.read_msgs =
                Len(rt.app_inbox[1]) + Len(rt.app_inbox[2]))

\* C12 witness: the third message for a full, open channel was dropped and
\* counted, and the reader handled the unit after it.
C12_Witness ==
    /\ dispatched = << SmallDS, SmallDS, SmallDS, ErrMsg >>
    /\ rt.app_inbox[1] = << Delivery(SmallDS), Delivery(SmallDS) >>
    /\ rt.app_closed = {}
    /\ rt.rcount.drop_msgs = 1 /\ rt.rcount.drop_bytes = DataLen(SmallDS)
    /\ rt.rcount.read_msgs = 2 /\ r_pc = "run"

\* C13: what an application channel holds are rpc requests and direct-send
\* messages of its own protocol id, tagged with the remote peer; a
\* dispatched rpc request or direct-send message changes no channel but the
\* one of its protocol id and is appended there when try_send succeeds; an
\* Error message changes no channel and the reader goes on.
C13_RoutedByProtocolId ==
    /\ [](\A p \in Apps : \A i \in 1..Len(rt.app_inbox[p]) :
            LET d == rt.app_inbox[p][i]
            IN /\ d.sender = RemotePeer
               /\ d.message.protocol_id = p
               /\ d.message.kind \in {"RpcRequest", "DirectSendMsg"})
    /\ [][Dispatches =>
             LET m == Dispatched IN
             /\ m.kind \in {"RpcRequest", "DirectSendMsg"} =>
                   /\ \A q \in Apps \ {m.protocol_id} :
                         rt'.app_inbox[q] = rt.app_inbox[q]
                   /\ (m.protocol_id \in Apps /\ CanAccept(m.protocol_id)) =>
                         rt'.app_inbox[m.protocol_id] =
                             Append(rt.app_inbox[m.protocol_id], Delivery(m))
             /\ m.kind = "Error" => (rt' = rt /\ ReaderGoesOn)]_vars

\* C13 witness: a reassembled rpc request in the channel of protocol 2, a
\* direct-send message in the channel of protocol 1, an Error message and a
\* message of an unregistered protocol dispatched to no channel.
C13_Witness ==
    /\ rt.app_inbox[2] = << Delivery(LargeB) >>
    /\ rt.app_inbox[1] = << Delivery(SmallDS) >>
    /\ \E i \in 1..Len(dispatched) : dispatched[i] = ErrMsg
    /\ r_pc = "run" /\ ~closed

\* C14: a dispatched rpc response whose request id is pending is removed
\* from the tracker and handed to a spawned complete_rpc task; one whose
\* request id is not pending is counted as missed and completes nothing; in
\* both cases no application channel changes and the reader goes on.
C14_RpcResponseMatched ==
    [][(Dispatches /\ Dispatched.kind = "RpcResponse") =>
          LET m == Dispatched IN
          /\ ReaderGoesOn
          /\ rt'.app_inbox = rt.app_inbox
          /\ IF m.request_id \in rt.open_outbound_rpc
             THEN /\ rt'.open_outbound_rpc = rt.open_outbound_rpc \ {m.request_id}
                  /\ rt'.rpc_spawned = Append(rt.rpc_spawned, m)
                  /\ rt'.rcount = rt.rcount
             ELSE /\ rt'.open_outbound_rpc = rt.open_outbound_rpc
                  /\ rt'.rpc_spawned = rt.rpc_spawned
                  /\ rt'.rcount = [rt.rcount EXCEPT !.rpc_miss = @ + 1]]_vars

\* C14 witness: the response of a pending rpc was handed to complete_rpc, a
\* second response with the same request id was counted as missed.
C14_Witness ==
    /\ rt.rpc_spawned = << SmallResp >>
    /\ rt.rcount.rpc_miss = 1
    /\ dispatched = << SmallResp, SmallResp >>
    /\ rt.open_outbound_rpc = {} /\ r_pc = "run" /\ ~closed

\* C16 as stated: a decode error item ends the reader and fires the
\* Shutdown Signal.
C16_DecodeErrorEndsReader ==
    [][(Consumes /\ Head(rin).type = "Err") => (r_pc' = "done" /\ closed')]_vars

\* the unit at the head of the inbound stream is one the reader absorbs
Absorbed(u) ==
    \/ /\ u.type = "Fragment"
       /\ \/ u.request_id # rctx.current_stream_id
          \/ u.fragment_id # rctx.fragment_index
    \/ u.type = "Header" /\ rctx.num_fragments # rctx.fragment_index
    \/ /\ u.type = "Message"
       /\ \/ u.message.kind = "Error"
          \/ /\ u.message.kind = "RpcResponse"
             /\ u.message.request_id \notin rt.open_outbound_rpc
          \/ Routed(u.message) /\ ~CanAccept(u.message.protocol_id)

\* C17: a fragment with an unexpected stream id or sequence number, a header
\* superseding an incomplete stream, a message for a full application
\* channel, an unmatched rpc response and an Error message leave the reader
\* running and the Shutdown Signal as it was; an unexpected fragment resets
\* fragment_index and num_fragments and is not dispatched.
C17_AbsorbedLocally ==
    [][/\ (Consumes /\ Absorbed(Head(rin))) => ReaderGoesOn
       /\ (Dispatches /\ Routed(Dispatched)
           /\ ~CanAccept(Dispatched.protocol_id)) => ReaderGoesOn
       /\ (/\ Consumes /\ Head(rin).type = "Fragment"
           /\ \/ Head(rin).request_id # rctx.current_stream_id
              \/ Head(rin).fragment_id # rctx.fragment_index)
          => /\ rctx'.fragment_index = 0 /\ rctx'.num_fragments = 0
             /\ ~Dispatches]_vars

\* C17 witness: a stream aborted by a stray fragment, an unmatched rpc
\* response and an Error message, with the reader running and the signal open.
C17_Witness ==
    /\ IsSome(rctx.large_message) /\ rctx.num_fragments = 0
    /\ rctx.current_stream_id = StreamA
    /\ rt.rcount.rpc_miss = 1
    /\ dispatched = << SmallResp, ErrMsg >>
    /\ ninj = 4 /\ rin = << >>
    /\ r_pc = "run" /\ ~closed

\* the fragment u is not the one the reader expects next
Mismatch(r, u) ==
    u.request_id # r.current_stream_id \/ u.fragment_id # r.fragment_index

\* C21 as stated: a fragment with an unexpected stream id or sequence number
\* leaves the reader without a partial message, and in the reset state no
\* fragment is accepted or appended.
C21_MismatchDiscardsPartial ==
    /\ [][(Consumes /\ Head(rin).type = "Fragment" /\ Mismatch(rctx, Head(rin)))
          => IsNone(rctx'.large_message)]_vars
    /\ []((rctx.fragment_index = 0 /\ rctx.num_fragments = 0) =>
            /\ IsNone(rctx.large_message)
            /\ \A u \in { v \in CatalogM : v.type = "Fragment" } :
                  HandleStream(rctx, u).r.large_message = None)

\* C22 as stated: a stream unit in order after which the next expected
\* sequence number equals the declared count (the header is number 0, so a
\* header declaring one fragment is such a unit) dispatches the assembled
\* message in that step and leaves no partial message.
C22_DispatchedWhenCountReached ==
    [][/\ (Consumes /\ Head(rin).type = "Header"
           /\ Head(rin).num_fragments = 1)
          => /\ dispatched' = Append(dispatched, Head(rin).message)
             /\ IsNone(rctx'.large_message)
       /\ (/\ Consumes /\ Head(rin).type = "Fragment"
           /\ ~Mismatch(rctx, Head(rin))
           /\ rctx.fragment_index >= 1 /\ IsSome(rctx.large_message)
           /\ rctx.fragment_index + 1 = rctx.num_fragments)
          => /\ dispatched' =
                   Append(dispatched,
                          [Unwrap(rctx.large_message) EXCEPT
                              !.data = @ \o Head(rin).raw_data])
             /\ IsNone(rctx'.large_message)]_vars

\* C23: a stream header, whatever the reader holds, makes the reader track
\* the header's stream id and count, expect fragment 1 and take the header's
\* message as the buffer, and dispatches nothing; what is dispatched is never
\* a partial message, and a stream sent whole after a superseded one is
\* dispatched with exactly its own payload.
C23_HeaderSupersedes ==
    /\ [][(Consumes /\ Head(rin).type = "Header") =>
             /\ rctx' = [current_stream_id |-> Head(rin).request_id,
                         num_fragments |-> Head(rin).num_fragments,
                         large_message |-> Some(Head(rin).message),
                         fragment_index |-> 1]
             /\ ~Dispatches /\ ReaderGoesOn]_vars
    /\ [](/\ \A i \in 1..Len(dispatched) : dispatched[i] \in {LargeA, LargeB}
          /\ LET c == Consumed
                 n == Len(c)
             IN /\ (n >= 2 /\ SubSeq(c, n - 1, n) = << HeaderB, FragB1 >>)
                   => (dispatched # << >>
                       /\ dispatched[Len(dispatched)] = LargeB)
                /\ (n >= 3 /\ SubSeq(c, n - 2, n) = << HeaderA, FragA1, FragA2 >>)
                   => (dispatched # << >>
                       /\ dispatched[Len(dispatched)] = LargeA))

\* C23 witness: the header of stream B arrived after the header and the first
\* fragment of stream A; stream B alone was dispatched.
C23_Witness ==
    /\ inj = << HeaderA, FragA1, HeaderB, FragB1 >>
    /\ rin = << >> /\ dispatched = << LargeB >>
    /\ IsNone(rctx.large_message) /\ rctx.current_stream_id = StreamB
    /\ r_pc = "run"

\* C24: the one stream of a round trip: its header is the first unit, is
\* written once and declares ceil(len / max_frame_size), a count from 2 to
\* 255; the fragments that follow carry the stream's id and the sequence
\* numbers 1, 2, ... in order; when the stream is written whole the number of
\* fragments is the count minus one; large_fragment_id stays below 255.
C24_FragmentCount ==
    /\ wctx.large_fragment_id < MaxFragments
    /\ \A p \in 1..Len(wire) :
          /\ wire[p].type = "Header" =>
                /\ p = 1
                /\ wire[p].num_fragments = RTCeil(DataLen(RTMsg))
                /\ wire[p].num_fragments \in 2..MaxFragments
          /\ wire[p].type = "Fragment" =>
                /\ wire[1].type = "Header"
                /\ wire[p].request_id = wire[1].request_id
                /\ wire[p].fragment_id = p - 1
                /\ p <= wire[1].num_fragments
    /\ IsSome(w_mm) /\ Unwrap(w_mm).type = "Fragment" =>
          Unwrap(w_mm).fragment_id = Len(wire)
    /\ (RTDone /\ wire[1].type = "Header") =>
          /\ Len(wire) = wire[1].num_fragments
          /\ wctx.large_fragment_id = wire[1].num_fragments - 1

\* C24 witness: a stream of 255 units written whole, its last fragment
\* numbered 254.
C24_Witness ==
    /\ RTDone /\ Len(wire) = MaxFragments
    /\ wire[1].type = "Header" /\ wire[1].num_fragments = MaxFragments
    /\ wire[MaxFragments].type = "Fragment"
    /\ wire[MaxFragments].fragment_id = MaxFragments - 1

\* C25 as stated: when the writer takes a message that needs more than 255
\* fragments it writes no unit of it, stays in its loop and leaves the
\* Shutdown Signal as it was.
C25_OversizeFailsOnlyMessage ==
    [][(/\ w_pc = "wait" /\ to_send # << >> /\ to_send' = Tail(to_send)
        /\ NumFragments(DataLen(Head(to_send))) > MaxFragments)
       => /\ w_pc' \in {"top", "wait"} /\ IsNone(w_mm')
          /\ wire' = wire /\ closed' = closed]_vars

\* wire[Len(wire)] is the last fragment of the writer's current stream
DrainedOnWire ==
    /\ wire # << >> /\ wire[Len(wire)].type = "Fragment"
    /\ wire[Len(wire)].request_id = wctx.stream_request_id
    /\ wire[Len(wire)].fragment_id = wctx.large_fragment_id
    /\ IsNone(wctx.large_message)

\* C26: an oversized message taken while a stream is in progress is staged
\* and the unit emitted in that step is a fragment of the stream; a staged
\* message is not replaced; while one is staged the writer dequeues nothing
\* and writes only fragments of the stream in progress; the staged message
\* leaves next_large_msg only when the last fragment of that stream is on
\* the wire, and the unit then handed to the socket is its header with the
\* next stream id.
C26_StagedBehindStream ==
    [][/\ (~Staged /\ IsSome(wctx'.next_large_msg) /\ w_pc' # "panicked") =>
             /\ MidStream /\ w_pc' = "send"
             /\ Unwrap(w_mm').type = "Fragment"
             /\ Unwrap(w_mm').request_id = wctx.stream_request_id
             /\ ~Small(Unwrap(wctx'.next_large_msg))
             /\ \/ /\ to_send_high_prio # << >>
                   /\ to_send_high_prio' = Tail(to_send_high_prio)
                   /\ wctx'.next_large_msg = Some(Head(to_send_high_prio))
                \/ /\ to_send # << >>
                   /\ to_send' = Tail(to_send)
                   /\ wctx'.next_large_msg = Some(Head(to_send))
       /\ (Staged /\ IsSome(wctx'.next_large_msg)) =>
             wctx'.next_large_msg = wctx.next_large_msg
       /\ Staged => /\ IsPrefix(to_send, to_send')
                    /\ IsPrefix(to_send_high_prio, to_send_high_prio')
       /\ (Staged /\ wire' # wire) =>
             /\ wire'[Len(wire')].type = "Fragment"
             /\ wire'[Len(wire')].request_id = wctx.stream_request_id
       /\ (Staged /\ IsNone(wctx'.next_large_msg)) =>
             /\ DrainedOnWire
             /\ w_pc' = "send"
             /\ w_mm' = Some(HeaderOf(Unwrap(wctx.next_large_msg)))]_vars

\* C26 witness: the last fragment of the stream in progress is written and
\* the message staged behind it is about to start.
C26_Witness ==
    /\ Staged /\ DrainedOnWire /\ w_pc = "top"
    /\ to_send # << >>

\* the writer dequeues a message
Dequeues ==
    \/ to_send # << >> /\ to_send' = Tail(to_send)
    \/ to_send_high_prio # << >> /\ to_send_high_prio' = Tail(to_send_high_prio)
BothAvailable == to_send # << >> /\ to_send_high_prio # << >>

\* C27 as stated: with no stream in progress, nothing staged and a message
\* in each channel, the message the writer takes next is the high-priority
\* one.
C27_HighFirstWhenIdle ==
    [][(/\ ~MidStream /\ ~Staged /\ w_pc \in {"top", "wait"}
        /\ BothAvailable /\ Dequeues)
       => /\ to_send_high_prio' = Tail(to_send_high_prio)
          /\ to_send' = to_send]_vars

\* C27 amended: a writer at the start of an iteration of run, with no stream
\* in progress, nothing staged and a message in each channel, takes the
\* high-priority message in its next step (a writer already waiting in the
\* select! may take either).
C27_HighFirstAtPoll ==
    [][(/\ ~MidStream /\ ~Staged /\ w_pc = "top" /\ BothAvailable
        /\ (Dequeues \/ w_pc' # w_pc))
       => /\ to_send_high_prio' = Tail(to_send_high_prio)
          /\ to_send' = to_send]_vars

\* C27 witness: the high-priority message submitted second is handed to the
\* socket while the normal message submitted first is still queued.
C27_Witness ==
    /\ w_pc = "send" /\ wire # << >>
    /\ Len(subs["high"]) = 1 /\ Len(subs["normal"]) >= 1
    /\ subs["normal"][Len(subs["normal"])].tag < subs["high"][1].tag
    /\ to_send # << >> /\ to_send[1].tag < subs["high"][1].tag
    /\ Unwrap(w_mm) = UMessage(subs["high"][1])
    /\ wire[Len(wire)].type = "Message"

\* C28 as stated: once the Shutdown Signal has fired the writer dequeues
\* nothing and hands no new unit to the socket, and the reader dispatches
\* nothing; a write in progress may complete.
C28_NoNewWorkAfterSignal ==
    [][closed =>
          /\ IsPrefix(to_send, to_send')
          /\ IsPrefix(to_send_high_prio, to_send_high_prio')
          /\ w_pc # "send" => w_pc' # "send"
          /\ dispatched' = dispatched]_vars

\* C29: the reader leaves run only at the end of the inbound stream or on
\* the Shutdown Signal; whenever it has left, the signal is closed; under
\* fair scheduling it does leave at the end of the inbound stream, and once
\* it has left the writer task ends, whether idle or in a socket write.
C29_ReaderExitEndsWriter ==
    /\ [][(r_pc = "run" /\ r_pc' = "done") =>
             (closed' /\ ((rin = << >> /\ eof) \/ closed))]_vars
    /\ [](r_pc = "done" => closed)
    /\ (eof /\ rin = << >> /\ r_pc = "run") ~> (r_pc = "done")
    /\ (r_pc = "done") ~> TaskOver(w_pc)

\* C29 witness: before start_peer gave anyone else the Closer, the reader
\* ended on end of input and the writer, waiting in its select!, ended on
\* the signal.
C29_Witness ==
    /\ eof /\ r_pc = "done" /\ closed
    /\ sp_pc = "insert_metadata"
    /\ w_pc = "done" /\ w_exit = "shutdown"

\* the sum of the data lengths of the units of a sequence
RECURSIVE SumDataLen(_)
SumDataLen(us) ==
    IF us = << >> THEN 0
    ELSE UnitDataLen(Head(us)) + SumDataLen(Tail(us))

\* C30: frames_written is the number of units whose write succeeded and
\* bytes_written the sum of their data lengths; a successful write adds one
\* and the unit's data length; a failed write, a write abandoned on the
\* Shutdown Signal and a dequeued DisconnectCommand change neither counter.
C30_WriteCounters ==
    /\ [](/\ frames_written = Len(wire)
          /\ bytes_written = SumDataLen(wire))
    /\ [][/\ (w_pc = "send" /\ w_pc' = "top") =>
                /\ wire' = Append(wire, Unwrap(w_mm))
                /\ frames_written' = frames_written + 1
                /\ bytes_written' = bytes_written + UnitDataLen(Unwrap(w_mm))
          /\ (w_exit = "" /\ w_exit' # "") =>
                /\ frames_written' = frames_written
                /\ bytes_written' = bytes_written
                /\ wire' = wire]_vars

\* C30 witness: a header and a fragment were written and counted, the write
\* of the next fragment failed and was not.
C30_Witness ==
    /\ w_exit = "write_err" /\ IsNone(wctx.large_message)
    /\ Len(wire) = 2 /\ frames_written = 2
    /\ bytes_written = 2 * MaxFrameSize
    /\ wire[2].type = "Fragment"

\* ------------------------------------------------- reading whole streams
\* the messages the applications submitted, and the one with a given tag
Submitted == UNION { { subs[q][i] : i \in 1..Len(subs[q]) } : q \in Queues }
Orig(tag) == CHOOSE m \in Submitted : m.tag = tag

\* the payload bytes a unit carries
UnitPayload(u) == IF u.type = "Fragment" THEN u.raw_data ELSE u.message.data

\* the header of the stream the fragment wire[p] belongs to
HeaderPos(p) ==
    CHOOSE h \in 1..p : /\ wire[h].type = "Header"
                        /\ wire[h].request_id = wire[p].request_id

\* the payload bytes of message tag among wire[1..k], in wire order
RECURSIVE PayloadOnWire(_, _)
PayloadOnWire(tag, k) ==
    IF k = 0 THEN << >>
    ELSE PayloadOnWire(tag, k - 1)
         \o (IF UnitTag(k) = tag THEN UnitPayload(wire[k]) ELSE << >>)

\* a stream whose header is on the wire before wire[p] is unfinished there
StreamOpenAt(p) ==
    \E h \in 1..(p - 1) : wire[h].type = "Header" /\ ~StreamDoneBefore(h, p)

\* C31: every unit written or handed to the socket carries at most
\* max_frame_size payload bytes: a message at most that, a header exactly
\* that, a fragment before the last exactly that, the last fragment from 1 to
\* that; the slices of a message on the wire, concatenated, are a prefix of
\* its payload and, once its last fragment is written, the payload.
C31_UnitsFitFrame ==
    /\ \A p \in 1..Len(wire) :
          /\ Len(UnitPayload(wire[p])) <= MaxFrameSize
          /\ wire[p].type = "Header" =>
                DataLen(wire[p].message) = MaxFrameSize
          /\ wire[p].type = "Fragment" =>
                /\ Len(wire[p].raw_data) >= 1
                /\ wire[p].fragment_id < wire[HeaderPos(p)].num_fragments - 1
                      => Len(wire[p].raw_data) = MaxFrameSize
          /\ LET tag == UnitTag(p)
             IN /\ IsPrefix(PayloadOnWire(tag, Len(wire)), Orig(tag).data)
                /\ (wire[p].type = "Message"
                    \/ (wire[p].type = "Header"
                        /\ \E j \in (p + 1)..Len(wire) : LastFragment(p, j)))
                   => PayloadOnWire(tag, Len(wire)) = Orig(tag).data
    /\ IsSome(w_mm) =>
          /\ Len(UnitPayload(Unwrap(w_mm))) <= MaxFrameSize
          /\ Unwrap(w_mm).type = "Header" =>
                DataLen(Unwrap(w_mm).message) = MaxFrameSize
          /\ Unwrap(w_mm).type = "Fragment" => Len(Unwrap(w_mm).raw_data) >= 1

\* C31 witness: a payload of max_frame_size + 1 bytes written as a header
\* and a last fragment of one byte, a payload of 3 * max_frame_size bytes as
\* a header and two full fragments.
C31_Witness ==
    /\ \E p \in 1..Len(wire) :
          /\ wire[p].type = "Fragment" /\ Len(wire[p].raw_data) = 1
          /\ LastFragment(HeaderPos(p), p)
    /\ \E p \in 1..Len(wire) :
          /\ wire[p].type = "Fragment" /\ wire[p].fragment_id = 2
          /\ Len(wire[p].raw_data) = MaxFrameSize
          /\ LastFragment(HeaderPos(p), p)

\* the headers on the wire, in wire order
WireHeaders == SelectSeq(wire, LAMBDA u : u.type = "Header")

\* C32: the i-th stream header written carries stream id i, and every
\* fragment carries the id of the last header written before it; the same
\* holds of the unit handed to the socket.
C32_StreamIdsIncrease ==
    /\ \A i \in 1..Len(WireHeaders) : WireHeaders[i].request_id = i
    /\ \A p \in 1..Len(wire) :
          wire[p].type = "Fragment" =>
             \E h \in 1..(p - 1) :
                /\ wire[h].type = "Header"
                /\ wire[h].request_id = wire[p].request_id
                /\ \A k \in (h + 1)..(p - 1) : wire[k].type # "Header"
    /\ IsSome(w_mm) =>
          /\ Unwrap(w_mm).type = "Header" =>
                Unwrap(w_mm).request_id = Len(WireHeaders) + 1
          /\ Unwrap(w_mm).type = "Fragment" =>
                /\ Len(WireHeaders) >= 1
                /\ Unwrap(w_mm).request_id = Len(WireHeaders)

\* C32 witness: two streams written, the second with id 2 in its header and
\* in its fragment.
C32_Witness ==
    /\ Len(WireHeaders) = 2 /\ WireHeaders[2].request_id = 2
    /\ wire[Len(wire)].type = "Fragment"
    /\ wire[Len(wire)].request_id = 2

\* C35: while a stream is unfinished on the wire, the unit written after an
\* unfragmented message is a fragment of that stream (and so is the unit
\* handed to the socket after it); hence fragment f of a stream is written
\* at most 2 * f units after its header.
C35_NoTwoMessagesMidStream ==
    /\ \A p \in 1..Len(wire) :
          (wire[p].type = "Message" /\ StreamOpenAt(p)) =>
             /\ p < Len(wire) =>
                   /\ wire[p + 1].type = "Fragment"
                   /\ \E h \in 1..(p - 1) : /\ wire[h].type = "Header"
                                            /\ ~StreamDoneBefore(h, p)
                                            /\ wire[h].request_id =
                                                  wire[p + 1].request_id
             /\ (p = Len(wire) /\ IsSome(w_mm)) =>
                   Unwrap(w_mm).type = "Fragment"
    /\ \A p \in 1..Len(wire) :
          wire[p].type = "Fragment" =>
             p - HeaderPos(p) <= 2 * wire[p].fragment_id

\* C35 witness: a stream of a header and two fragments written with a small
\* message before each fragment.
C35_Witness ==
    /\ Len(wire) = 5
    /\ wire[1].type = "Header" /\ wire[2].type = "Message"
    /\ wire[3].type = "Fragment" /\ wire[4].type = "Message"
    /\ wire[5].type = "Fragment" /\ LastFragment(1, 5)

\* the tags of the messages complete among wire[1..k], in the order in
\* which their last unit was written
RECURSIVE CompletedTags(_)
CompletedTags(k) ==
    IF k = 0 THEN << >>
    ELSE CompletedTags(k - 1)
         \o (IF wire[k].type = "Message"
                \/ (wire[k].type = "Fragment" /\ LastFragment(HeaderPos(k), k))
             THEN << UnitTag(k) >> ELSE << >>)

\* C36: the reader passes an unfragmented message to handle_message in the
\* step that consumes it and leaves current_stream_id, num_fragments,
\* fragment_index and large_message as they are; what the peer's reader
\* dispatches are the submitted messages with their whole payloads, and once
\* it has consumed all that was written it has dispatched exactly the
\* messages complete on the wire, in the order in which they were completed.
C36_MessageMidStreamAtReader ==
    /\ [][(Consumes /\ Head(rin).type = "Message") =>
             /\ rctx' = rctx
             /\ dispatched' = Append(dispatched, Head(rin).message)
             /\ rt' = HandleMessage(rt, Head(rin).message)
             /\ ReaderGoesOn]_vars
    /\ [](/\ \A i \in 1..Len(dispatched) : dispatched[i] \in Submitted
          /\ rin = << >> =>
                [i \in 1..Len(dispatched) |-> dispatched[i].tag]
                   = CompletedTags(Len(wire)))

\* C36 witness: a small message was written between the header and the
\* fragments of a stream; the peer's reader dispatched the small message and
\* then the whole payload of the stream.
C36_Witness ==
    /\ Len(wire) = 4 /\ rin = << >>
    /\ wire[1].type = "Header" /\ wire[2].type = "Message"
    /\ wire[3].type = "Fragment" /\ LastFragment(1, 4)
    /\ dispatched = << wire[2].message, Orig(wire[1].message.tag) >>
    /\ DataLen(dispatched[2]) = 3 * MaxFrameSize

\* the payload of the header c[h] followed by the fragments c[h+1..h+k]
RECURSIVE StreamPayload(_, _, _)
StreamPayload(c, h, k) ==
    IF k = 0 THEN c[h].message.data
    ELSE StreamPayload(c, h, k - 1) \o c[h + k].raw_data

\* c[h] is a header declaring n >= 1 and c[h+1..h+n-1] are the fragments
\* 1..n-1 of its stream, in order
WholeStreamAt(c, h) ==
    /\ c[h].type = "Header" /\ c[h].num_fragments >= 1
    /\ h + c[h].num_fragments - 1 <= Len(c)
    /\ \A k \in 1..(c[h].num_fragments - 1) :
          /\ c[h + k].type = "Fragment"
          /\ c[h + k].request_id = c[h].request_id
          /\ c[h + k].fragment_id = k

\* C33 as stated: every message the reader dispatches from reassembly is the
\* payload of one stream header followed by those of the fragments 1..n-1 of
\* that stream, consumed one after the other.
C33_OnlyWholeStreamsDispatched ==
    \A i \in 1..Len(dispatched) :
        \E h \in 1..Len(Consumed) :
            /\ WholeStreamAt(Consumed, h)
            /\ dispatched[i].data =
                  StreamPayload(Consumed, h, Consumed[h].num_fragments - 1)

\* C34 as stated: no fragment the reader consumes takes fragment_index
\* past 255.
C34_FragmentIndexNeverOverflows ==
    [][(Consumes /\ Head(rin).type = "Fragment")
       => ~HandleStream(rctx, Head(rin)).overflow]_vars

\* C37: a response is handed to a complete_rpc task only in the step that
\* dispatches it, only if its request id is pending, and that step removes
\* the id; a response whose id is not pending is counted as missed and
\* handed to no task; the reader never makes an id pending.  So between two
\* responses handed over for one id lies a registration of that id, and
\* every dispatched response is either handed over or counted as missed.
C37_AtMostOneResponsePerRpc ==
    /\ [][/\ rt'.rpc_spawned # rt.rpc_spawned =>
                /\ Dispatches /\ Dispatched.kind = "RpcResponse"
                /\ Dispatched.request_id \in rt.open_outbound_rpc
                /\ Dispatched.request_id \notin rt'.open_outbound_rpc
                /\ rt'.rpc_spawned = Append(rt.rpc_spawned, Dispatched)
          /\ (/\ Dispatches /\ Dispatched.kind = "RpcResponse"
              /\ Dispatched.request_id \notin rt.open_outbound_rpc) =>
                /\ rt'.rpc_spawned = rt.rpc_spawned
                /\ rt'.open_outbound_rpc = rt.open_outbound_rpc
                /\ rt'.rcount.rpc_miss = rt.rcount.rpc_miss + 1
          /\ rt'.open_outbound_rpc \ rt.open_outbound_rpc # {} =>
                (rin' = rin /\ dispatched' = dispatched)]_vars
    /\ [](Len(rt.rpc_spawned) + rt.rcount.rpc_miss =
             Len(SelectSeq(dispatched, LAMBDA m : m.kind = "RpcResponse")))

\* C37 witness: three responses with the request id of one pending rpc; the
\* first was handed to complete_rpc, the two after it were counted as missed.
C37_Witness ==
    /\ dispatched = << SmallResp, SmallResp, SmallResp >>
    /\ rt.rpc_spawned = << SmallResp >> /\ rt.rcount.rpc_miss = 2
    /\ rt.open_outbound_rpc = {} /\ r_pc = "run"

\* C38: an rpc request or direct-send message whose protocol id has no
\* registered application changes no application channel, no counter and
\* nothing else handle_message acts on; consumed as an unfragmented unit it
\* leaves the defragment fields as they are; the reader goes on and the
\* Shutdown Signal is as it was.
C38_UnroutedDiscarded ==
    [][(/\ Dispatches
        /\ Dispatched.kind \in {"RpcRequest", "DirectSendMsg"}
        /\ Dispatched.protocol_id \notin Apps)
       => /\ rt' = rt /\ ReaderGoesOn
          /\ Head(rin).type = "Message" => rctx' = rctx]_vars

\* C38 witness: a message of an unregistered protocol was consumed between
\* the header and the fragment of a stream; nothing was queued or counted.
C38_Witness ==
    /\ dispatched = << Unrouted >> /\ rin = << >>
    /\ rt = RoutingNew
    /\ rctx.current_stream_id = StreamB /\ rctx.fragment_index = 1
    /\ rctx.large_message = Some(HeaderB.message)
    /\ r_pc = "run" /\ ~closed

====
